---------------------------- MODULE Spec2Model ----------------------------
(***************************************************************************)
(* A model of elsummariz00r: URL identity and cache lookup (storage.ts),   *)
(* caption selection and parsing (youtube.ts), site discovery, fetching    *)
(* and cross-page stripping (site.ts), the timeout race of the oracle call *)
(* (summarize.ts), the tab lookup (cdp.ts), page chunking, the summarize   *)
(* orchestrators with their map-reduce branch and the discussion entry     *)
(* point (run.ts).                                                         *)
(*                                                                         *)
(* Text is a sequence of tokens.  A token is a piece of the string that    *)
(* the code's patterns never split: "https://", "youtube.com", "/", "v=",  *)
(* an 11-character video id, "---", a newline, a word.  Concatenating the  *)
(* tokens gives the string the program sees.                               *)
(***************************************************************************)
EXTENDS Integers, Sequences, FiniteSets, TLC

VARIABLES
    nuUrls,      \* SpecUrl: the pair of URLs handed to normalizeUrl
    nuKeys,      \* SpecUrl: their keys, <<>> before the call
    cpPages,     \* SpecChunk: the page list handed to chunkPages
    cpMaxWords,  \* SpecChunk: the budget handed to chunkPages
    cpChunks,    \* SpecChunk: <<chunks>> once chunkPages returned, <<>> before
    stTracks,    \* SpecTrack: the caption track list
    stBest,      \* SpecTrack: <<track>> once selectBestTrack returned
    fcEnv,       \* SpecCaptions: what the video page, the player endpoint and
                 \* the caption endpoint answer
    fcResult,    \* SpecCaptions: <<result>> once fetchCaptions settled
    fcFetches,   \* SpecCaptions: the requests fetchCaptions made, in order
    scPages,     \* SpecStrip: the pages handed to stripCommonText
    scResult,    \* SpecStrip: <<pages>> once stripCommonText returned
    articles,    \* ~/.elsummariz00r/articles: slug -> text of <slug>.md
    summaries,   \* ~/.elsummariz00r/summaries: slug -> text of <slug>.md
    htmls,       \* ~/.elsummariz00r/html: slug -> what <slug>.html renders
    tabs,        \* <<the browser's tabs, the active one first>> once this
                 \* invocation listed them; they change only by its openUrl
    today,       \* the day of the clock, the same for all the invocations
    pc,          \* where the current invocation stands
    run,         \* the current invocation: its options and local variables
    result,      \* <<SummarizeResult>> once the invocation returned
    calls,       \* what the current invocation called: collaborators, writes
    savedSummary,\* history: slug -> the summary text handed to saveSummary
    runs,        \* the number of invocations started
    fsEnv,       \* SpecSite: the argument of fetchSite
    fsPc,        \* SpecSite: where fetchSite stands
    fsUrls,      \* SpecSite: pageUrls
    fsPages,     \* SpecSite: the pages Promise.all returned
    fsCleaned,   \* SpecSite: what stripCommonText made of them
    fsResult,    \* SpecSite: <<SiteResult>> or <<error>> once fetchSite settled
    fbDir,       \* SpecFind: the articles directory, slug -> text and time of
                 \* the write that created the file
    fbDay,       \* SpecFind: the day of the clock
    fbClock,     \* SpecFind: the number of writes so far
    fbFound,     \* SpecFind: <<call>> once findByUrl returned: the order in
                 \* which readdir listed the files, the url, the slug
    rdSums,      \* SpecDiscuss: the summaries directory, slug -> mtime
    rdPc,        \* SpecDiscuss: where runDiscuss stands
    rdArgs,      \* SpecDiscuss: the arguments of runDiscuss
    rdTarget,    \* SpecDiscuss: target, <<>> while undefined
    rdCalls,     \* SpecDiscuss: the collaborators runDiscuss called, in order
    rdError,     \* SpecDiscuss: the message of the error runDiscuss threw
    smClears,    \* SpecRace: whether summarize clears its timer when the race
                 \* settles (the current summarize.ts does, the older one not)
    smNow,       \* SpecRace: milliseconds since summarize was called
    smOracle,    \* SpecRace: the promise of sdkCall(): pending, or how it settled
    smRead,      \* SpecRace: the messages sdkCall read from the query so far
    smTimer,     \* SpecRace: "armed", "fired" or "cleared"
    smOutcome,   \* SpecRace: <<outcome>> once the promise of summarize settled
    smOrder,     \* SpecRace: history, which of sdkCall and the timer settled,
                 \* in order
    mrPc,        \* SpecReduce: where the map-reduce branch stands
    mrChunks,    \* SpecReduce: chunks
    mrSettled,   \* SpecReduce: the chunk calls that returned, in the order
                 \* of their return: <<index of the chunk, summary>>
    mrCalls,     \* SpecReduce: the summarize calls issued, in order
    mrSummary,   \* SpecReduce: <<summary>> once the merge call returned
    mrError,     \* SpecReduce: the message of the error the branch threw
    ftTabs,      \* SpecTab: the tab list handed to findTabByUrl
    ftUrl,       \* SpecTab: the requested URL
    ftFound,     \* SpecTab: <<found>> once findTabByUrl returned, found
                 \* being <<tab>> or <<>> for undefined
    ftOpened     \* SpecTab: <<what the orchestrator did with found>>: the
                 \* URL handed to openUrl, if any, and the tab it read

urlVars == <<nuUrls, nuKeys>>
chunkVars == <<cpPages, cpMaxWords, cpChunks>>
trackVars == <<stTracks, stBest>>
capVars == <<fcEnv, fcResult, fcFetches>>
stripVars == <<scPages, scResult>>
storeVars == <<articles, summaries, htmls, savedSummary>>
runVars == <<storeVars, tabs, today, pc, run, result, calls, runs>>
siteVars == <<fsEnv, fsPc, fsUrls, fsPages, fsCleaned, fsResult>>
findVars == <<fbDir, fbDay, fbClock, fbFound>>
discussVars == <<rdSums, rdPc, rdArgs, rdTarget, rdCalls, rdError>>
raceVars == <<smClears, smNow, smOracle, smRead, smTimer, smOutcome, smOrder>>
reduceVars == <<mrPc, mrChunks, mrSettled, mrCalls, mrSummary, mrError>>
tabVars == <<ftTabs, ftUrl, ftFound, ftOpened>>
moreVars == <<reduceVars, tabVars>>
extraVars == <<siteVars, findVars, discussVars, raceVars, moreVars>>
baseVars == <<urlVars, chunkVars, trackVars, capVars, stripVars, runVars>>

vars == <<urlVars, chunkVars, trackVars, capVars, stripVars, runVars, extraVars>>

\* the variables of the specifications that are not running
UrlIdle == nuUrls = <<>> /\ nuKeys = <<>>
ChunkIdle == cpPages = <<>> /\ cpMaxWords = 0 /\ cpChunks = <<>>
TrackIdle == stTracks = <<>> /\ stBest = <<>>
CapIdle == fcEnv = <<>> /\ fcResult = <<>> /\ fcFetches = <<>>
StripIdle == scPages = <<>> /\ scResult = <<>>
RunIdle ==
    /\ articles = <<>> /\ summaries = <<>> /\ htmls = <<>> /\ savedSummary = <<>>
    /\ tabs = <<>> /\ today = 0 /\ pc = "off" /\ run = <<>> /\ result = <<>>
    /\ calls = <<>> /\ runs = 0
SiteIdle ==
    /\ fsEnv = <<>> /\ fsPc = "off" /\ fsUrls = <<>> /\ fsPages = <<>>
    /\ fsCleaned = <<>> /\ fsResult = <<>>
FindIdle == fbDir = <<>> /\ fbDay = 0 /\ fbClock = 0 /\ fbFound = <<>>
DiscussIdle ==
    /\ rdSums = <<>> /\ rdPc = "off" /\ rdArgs = <<>> /\ rdTarget = <<>>
    /\ rdCalls = <<>> /\ rdError = ""
RaceIdle ==
    /\ smClears = FALSE /\ smNow = 0 /\ smOracle = <<>> /\ smRead = <<>>
    /\ smTimer = "off" /\ smOutcome = <<>> /\ smOrder = <<>>
ReduceIdle ==
    /\ mrPc = "off" /\ mrChunks = <<>> /\ mrSettled = <<>> /\ mrCalls = <<>>
    /\ mrSummary = <<>> /\ mrError = ""
TabIdle == ftTabs = <<>> /\ ftUrl = <<>> /\ ftFound = <<>> /\ ftOpened = <<>>
MoreIdle == ReduceIdle /\ TabIdle
ExtraIdle == SiteIdle /\ FindIdle /\ DiscussIdle /\ RaceIdle /\ MoreIdle

-----------------------------------------------------------------------------
(* Sequence helpers *)

StartsWith(s, p) == Len(p) <= Len(s) /\ SubSeq(s, 1, Len(p)) = p

EndsWith(s, p) == Len(p) <= Len(s) /\ SubSeq(s, Len(s) - Len(p) + 1, Len(s)) = p

Tail0(s, i) == SubSeq(s, i, Len(s))

SetMax(S) == CHOOSE x \in S : \A y \in S : y <= x

SetMin(S) == CHOOSE x \in S : \A y \in S : x <= y

\* the sequences over S of length 0..n
SeqUpTo(S, n) == UNION {[1..k -> S] : k \in 0..n}

\* the positions of a sequence, in order
Indices(s) == [i \in 1..Len(s) |-> i]

RECURSIVE Flatten(_)
Flatten(ss) == IF ss = <<>> THEN <<>> ELSE Head(ss) \o Flatten(Tail(ss))

-----------------------------------------------------------------------------
(* Text: what the regular expression \s and the string methods do *)

\* \s
IsWs(t) == t \in {" ", "\n", "\t"}

\* String.prototype.trim
RECURSIVE TrimStart(_)
TrimStart(s) == IF s # <<>> /\ IsWs(Head(s)) THEN TrimStart(Tail(s)) ELSE s

RECURSIVE TrimEnd(_)
TrimEnd(s) ==
    IF s # <<>> /\ IsWs(s[Len(s)]) THEN TrimEnd(SubSeq(s, 1, Len(s) - 1)) ELSE s

Trim(s) == TrimEnd(TrimStart(s))

\* s.replace(/\s+/g, " ")
\* (the first token of each run of whitespace stays, as a space)
CollapseWs(s) ==
    LET kept == SelectSeq(Indices(s),
                          LAMBDA i : ~IsWs(s[i]) \/ i = 1 \/ ~IsWs(s[i - 1]))
    IN  [k \in 1..Len(kept) |-> IF IsWs(s[kept[k]]) THEN " " ELSE s[kept[k]]]

\* s.split(/\s+/): the pieces between the runs of whitespace; a string that
\* starts or ends with whitespace has an empty first or last piece, and the
\* empty string has one empty piece
SplitWs(s) ==
    LET starts == SelectSeq(Indices(s),
                            LAMBDA i : ~IsWs(s[i]) /\ (i = 1 \/ IsWs(s[i - 1])))
        ends == SelectSeq(Indices(s),
                          LAMBDA i : ~IsWs(s[i]) /\ (i = Len(s) \/ IsWs(s[i + 1])))
        empty == <<<<>>>>
    IN  (IF s = <<>> \/ IsWs(s[1]) THEN empty ELSE <<>>)
        \o [k \in 1..Len(starts) |-> SubSeq(s, starts[k], ends[k])]
        \o (IF s # <<>> /\ IsWs(s[Len(s)]) THEN empty ELSE <<>>)

\* pieces.join(sep)
RECURSIVE JoinWith(_, _)
JoinWith(pieces, sep) ==
    IF pieces = <<>> THEN <<>>
    ELSE IF Len(pieces) = 1 THEN pieces[1]
    ELSE pieces[1] \o <<sep>> \o JoinWith(Tail(pieces), sep)

\* s.replaceAll(pat, ""): every occurrence found scanning left to right,
\* the scan going on after each occurrence
RECURSIVE RemoveAll(_, _)
RemoveAll(s, pat) ==
    LET hits == SelectSeq(Indices(s), LAMBDA i : StartsWith(Tail0(s, i), pat))
    IN  IF hits = <<>> THEN s
        ELSE SubSeq(s, 1, hits[1] - 1) \o RemoveAll(Tail0(s, hits[1] + Len(pat)), pat)

-----------------------------------------------------------------------------
(* URL tokens *)

\* [a-zA-Z0-9_-]{11}: the tokens that are eleven id characters
IdTokens == {"AAAAAAAAAAA", "BBBBBBBBBBB"}

SchemeTokens == {"https://", "http://", "file://"}

HostTokens == {"www.", "m.", "youtube.com", "youtu.be", "ex.com", "EX.com", "other.org"}

\* the WHATWG host parser lower-cases the host
LowerToken(t) == IF t = "EX.com" THEN "ex.com" ELSE t

LowerHost(h) == [i \in 1..Len(h) |-> LowerToken(h[i])]

NoMatch == "<none>"

\* storage.ts:13-15 at one start position i of the pattern
\*   (?:youtube\.com\/(?:watch\?.*v=|shorts\/|live\/)|youtu\.be\/)([a-zA-Z0-9_-]{11})
\* .* is greedy: of the "v=" followed by an id, the last one is taken.
ytMatchAt(url, i) ==
    LET n == Len(url)
        tok(j) == IF j <= n THEN url[j] ELSE "<end>"
        vs == {j \in (i + 4)..n : url[j] = "v=" /\ tok(j + 1) \in IdTokens}
    IN  IF tok(i) = "youtube.com" /\ tok(i + 1) = "/" /\ tok(i + 2) = "watch"
           /\ tok(i + 3) = "?" /\ vs # {}
        THEN url[SetMax(vs) + 1]
        ELSE IF tok(i) = "youtube.com" /\ tok(i + 1) = "/"
                /\ tok(i + 2) \in {"shorts", "live"} /\ tok(i + 3) = "/"
                /\ tok(i + 4) \in IdTokens
        THEN url[i + 4]
        ELSE IF tok(i) = "youtu.be" /\ tok(i + 1) = "/" /\ tok(i + 2) \in IdTokens
        THEN url[i + 2]
        ELSE NoMatch

\* url.match(...): the leftmost start position that matches
ytMatch(url) ==
    LET starts == {i \in 1..Len(url) : ytMatchAt(url, i) # NoMatch}
    IN  IF starts = {} THEN NoMatch ELSE ytMatchAt(url, SetMin(starts))

\* new URL(url): the parts of a parsed URL, or ok = FALSE when it throws.
\* http(s) needs a host; file:// has an empty one.
RECURSIVE HostLen(_, _)
HostLen(url, i) ==
    IF i <= Len(url) /\ url[i] \in HostTokens THEN 1 + HostLen(url, i + 1) ELSE 0

FirstIndex(s, t, from) ==
    LET hits == {j \in from..Len(s) : s[j] = t}
    IN  IF hits = {} THEN Len(s) + 1 ELSE SetMin(hits)

ParseUrl(url) ==
    IF Len(url) = 0 \/ url[1] \notin SchemeTokens
    THEN [ok |-> FALSE]
    ELSE LET hl == HostLen(url, 2)
             rest == Tail0(url, 2 + hl)
             h == FirstIndex(rest, "#", 1)
             noHash == SubSeq(rest, 1, h - 1)
             q == FirstIndex(noHash, "?", 1)
         IN  IF hl = 0 /\ url[1] # "file://"
             THEN [ok |-> FALSE]
             ELSE [ok |-> TRUE,
                   protocol |-> url[1],
                   host |-> LowerHost(SubSeq(url, 2, 1 + hl)),
                   pathname |-> IF q = 1 THEN <<"/">> ELSE SubSeq(noHash, 1, q - 1),
                   search |-> Tail0(noHash, q),
                   hash |-> Tail0(rest, h)]

\* u.toString()
UrlToString(u) == <<u.protocol>> \o u.host \o u.pathname \o u.search \o u.hash

\* normalizeUrl with "u.hash = ''" left out
normalizeUrlKeepsHash(url) ==
    LET m == ytMatch(url)
        u == ParseUrl(url)
    IN  IF m # NoMatch THEN <<"yt:", m>>
        ELSE IF ~u.ok THEN url
        ELSE LET normalized == UrlToString(u)
             IN  IF EndsWith(normalized, <<"/">>)
                 THEN SubSeq(normalized, 1, Len(normalized) - 1)
                 ELSE normalized

\* storage.ts:11-28
normalizeUrl(url) ==
    LET m == ytMatch(url)
        u == ParseUrl(url)
    IN  IF m # NoMatch THEN <<"yt:", m>>
        ELSE IF ~u.ok THEN url
        ELSE LET normalized == UrlToString([u EXCEPT !.hash = <<>>])
             IN  IF EndsWith(normalized, <<"/">>)
                 THEN SubSeq(normalized, 1, Len(normalized) - 1)
                 ELSE normalized

-----------------------------------------------------------------------------
(* SpecUrl: normalizeUrl applied to a pair of URLs *)

MaxExtraParams == 1
MaxTrailingSlashes == 2

\* query parameters a video link may carry besides v: a time offset, and the
\* "rv" parameter of a mix link, whose value is a video id
ExtraParams == {<<"t=1">>} \cup {<<"r", "v=", id>> : id \in IdTokens}

RECURSIVE JoinParams(_, _)
JoinParams(ps, first) ==
    IF ps = <<>> THEN <<>>
    ELSE <<first>> \o Head(ps) \o JoinParams(Tail(ps), "&")

WatchUrls ==
    {<<sc>> \o sub \o <<"youtube.com", "/", "watch", "?">> \o pre \o <<"v=", id>>
        \o JoinParams(ex, "&") :
        sc \in {"https://", "http://"}, sub \in {<<>>, <<"www.">>},
        pre \in {<<>>, <<"app=1", "&">>}, id \in IdTokens,
        ex \in SeqUpTo(ExtraParams, MaxExtraParams)}

ShortUrls ==
    {<<sc, "youtu.be", "/", id>> \o JoinParams(ex, "?") :
        sc \in {"https://", "http://"}, id \in IdTokens,
        ex \in SeqUpTo(ExtraParams, MaxExtraParams)}

VideoUrls == WatchUrls \cup ShortUrls

Slashes(k) == [i \in 1..k |-> "/"]

WebUrls ==
    {sc \o <<h>> \o base \o q \o Slashes(k) \o fr :
        sc \in {<<"https://">>, <<"http://">>, <<>>},
        h \in {"ex.com", "EX.com", "other.org"},
        base \in {<<>>, <<"/", "a">>}, q \in {<<>>, <<"?", "q=1">>},
        k \in 0..MaxTrailingSlashes, fr \in {<<>>, <<"#", "f">>}}

InitUrl ==
    /\ nuUrls \in (VideoUrls \X VideoUrls) \cup (WebUrls \X WebUrls)
    /\ nuKeys = <<>>
    /\ ChunkIdle /\ TrackIdle /\ CapIdle /\ StripIdle /\ RunIdle /\ ExtraIdle

NormalizePair ==
    /\ nuKeys = <<>>
    /\ nuKeys' = <<normalizeUrl(nuUrls[1]), normalizeUrl(nuUrls[2])>>
    /\ UNCHANGED <<nuUrls, chunkVars, trackVars, capVars, stripVars, runVars, extraVars>>

NextUrl == NormalizePair

SpecUrl == InitUrl /\ [][NextUrl]_vars

-----------------------------------------------------------------------------
(* chunkPages (run.ts) and SpecChunk *)

\* the test without the words of the page about to be added
ChunkOverflowsIgnoringPage(currentWords, page, maxWords) == currentWords > maxWords

\* run.ts:256, the first half of the test that closes the current chunk
ChunkOverflows(currentWords, page, maxWords) == currentWords + page.words > maxWords

\* run.ts:255-265: the loop over the pages and the push of the last chunk
RECURSIVE chunkLoop(_, _, _, _, _)
chunkLoop(pages, maxWords, chunks, current, currentWords) ==
    IF pages = <<>>
    THEN IF Len(current) > 0 THEN Append(chunks, current) ELSE chunks
    ELSE LET page == Head(pages)
             close == ChunkOverflows(currentWords, page, maxWords) /\ Len(current) > 0
         IN  chunkLoop(Tail(pages), maxWords,
                       IF close THEN Append(chunks, current) ELSE chunks,
                       IF close THEN <<page>> ELSE Append(current, page),
                       IF close THEN page.words ELSE currentWords + page.words)

\* chunkPages without the push of the chunk still open when the loop ends
chunkPagesDropsOpenChunk(pages, maxWords) ==
    LET all == chunkLoop(pages, maxWords, <<>>, <<>>, 0)
    IN  IF all = <<>> THEN all ELSE SubSeq(all, 1, Len(all) - 1)

\* run.ts:250-266
chunkPages(pages, maxWords) == chunkLoop(pages, maxWords, <<>>, <<>>, 0)

MaxChunkPages == 4
MaxPageWords == 4
MaxBudget == 3

\* pages told apart by their url; a page has at least one word (site.ts:350)
InitChunk ==
    /\ \E n \in 0..MaxChunkPages :
          \E w \in [1..n -> 1..MaxPageWords] :
             cpPages = [i \in 1..n |-> [url |-> i, words |-> w[i]]]
    /\ cpMaxWords \in 1..MaxBudget
    /\ cpChunks = <<>>
    /\ UrlIdle /\ TrackIdle /\ CapIdle /\ StripIdle /\ RunIdle /\ ExtraIdle

CallChunkPages ==
    /\ cpChunks = <<>>
    /\ cpChunks' = <<chunkPages(cpPages, cpMaxWords)>>
    /\ UNCHANGED <<cpPages, cpMaxWords, urlVars, trackVars, capVars, stripVars, runVars, extraVars>>

NextChunk == CallChunkPages

SpecChunk == InitChunk /\ [][NextChunk]_vars

-----------------------------------------------------------------------------
(* selectBestTrack (youtube.ts) and SpecTrack *)

IsAsr(t) == IF t.kind = "asr" THEN 1 ELSE 0

\* youtube.ts:35-38: "en", or a code that starts with "en-"; 0 is English
NotEn(t) ==
    IF t.languageCode = <<"en">> \/ StartsWith(t.languageCode, <<"en", "-">>)
    THEN 0 ELSE 1

\* the comparator with the two tests in the other order
compareTracksLanguageFirst(a, b) ==
    IF NotEn(a) # NotEn(b) THEN NotEn(a) - NotEn(b) ELSE IsAsr(a) - IsAsr(b)

\* youtube.ts:30-40, the comparator handed to sort
compareTracks(a, b) ==
    IF IsAsr(a) # IsAsr(b) THEN IsAsr(a) - IsAsr(b) ELSE NotEn(a) - NotEn(b)

\* Array.prototype.sort is stable: an element goes after every element that
\* does not compare greater than it
RECURSIVE InsertSorted(_, _)
InsertSorted(sorted, t) ==
    IF sorted = <<>> THEN <<t>>
    ELSE IF compareTracks(Head(sorted), t) <= 0
         THEN <<Head(sorted)>> \o InsertSorted(Tail(sorted), t)
         ELSE <<t>> \o sorted

RECURSIVE StableSort(_, _)
StableSort(sorted, rest) ==
    IF rest = <<>> THEN sorted
    ELSE StableSort(InsertSorted(sorted, Head(rest)), Tail(rest))

\* youtube.ts:28-42
selectBestTrack(tracks) == StableSort(<<>>, tracks)[1]

MaxTracks == 3

LanguageCodes == {<<"en">>, <<"en", "-", "US">>, <<"fr">>}

\* kind is "asr" for an auto-generated track and absent otherwise
TrackKinds == {"asr", "absent"}

TrackLists ==
    UNION {{[i \in 1..n |-> [languageCode |-> l[i], kind |-> k[i], baseUrl |-> i]] :
               l \in [1..n -> LanguageCodes], k \in [1..n -> TrackKinds]} :
           n \in 1..MaxTracks}

InitTrack ==
    /\ stTracks \in TrackLists
    /\ stBest = <<>>
    /\ UrlIdle /\ ChunkIdle /\ CapIdle /\ StripIdle /\ RunIdle /\ ExtraIdle

CallSelectBestTrack ==
    /\ stBest = <<>>
    /\ stBest' = <<selectBestTrack(stTracks)>>
    /\ UNCHANGED <<stTracks, urlVars, chunkVars, capVars, stripVars, runVars, extraVars>>

NextTrack == CallSelectBestTrack

SpecTrack == InitTrack /\ [][NextTrack]_vars

-----------------------------------------------------------------------------
(* fetchCaptions (youtube.ts) and SpecCaptions *)

\* youtube.ts:44-54, on the entity tokens of the model
decodeEntity(t) ==
    CASE t = "&amp;" -> "&"
      [] t = "&lt;" -> "<"
      [] t = "&gt;" -> ">"
      [] t = "&nbsp;" -> " "
      [] OTHER -> t

decodeEntities(s) == [i \in 1..Len(s) |-> decodeEntity(s[i])]

\* parseJson3 without "if (text)": an empty line is pushed too
RECURSIVE parseJson3EventsKeepsEmpty(_)
parseJson3EventsKeepsEmpty(events) ==
    IF events = <<>> THEN <<>>
    ELSE <<Trim(Flatten(Head(events).segs))>> \o parseJson3EventsKeepsEmpty(Tail(events))

\* youtube.ts:60-67: the loop over the events
RECURSIVE parseJson3Events(_)
parseJson3Events(events) ==
    IF events = <<>> THEN <<>>
    ELSE LET text == Trim(Flatten(Head(events).segs))
         IN  (IF text # <<>> THEN <<text>> ELSE <<>>) \o parseJson3Events(Tail(events))

\* youtube.ts:56-69; JSON.parse throws on a body that is not JSON
IsJson(body) == body.kind = "json"

parseJson3(body) == parseJson3Events(body.events)

\* youtube.ts:71-82: the <text> elements of the body, a JSON body has none
RECURSIVE parseXmlTexts(_)
parseXmlTexts(texts) ==
    IF texts = <<>> THEN <<>>
    ELSE LET decoded == Trim(CollapseWs(decodeEntities(Head(texts))))
         IN  (IF decoded # <<>> THEN <<decoded>> ELSE <<>>) \o parseXmlTexts(Tail(texts))

parseXml(body) == IF body.kind = "xml" THEN parseXmlTexts(body.texts) ELSE <<>>

CaptionError(msg) == [ok |-> FALSE, error |-> msg]

\* youtube.ts:94-96
VideoTitle(html) ==
    IF html.title = <<>> THEN <<"Untitled Video">>
    ELSE LET t == Trim(SelectSeq(html.title, LAMBDA x : x # " - YouTube"))
         IN  IF t = <<>> THEN <<"Untitled Video">> ELSE t

\* youtube.ts:143-160: the lines read from the two caption bodies
CaptionLinesFirst(env) ==
    IF env.capBody.kind # "empty"
    THEN IF IsJson(env.capBody) THEN parseJson3(env.capBody) ELSE parseXml(env.capBody)
    ELSE <<>>

\* the lines of the first body alone, the second body never read
CaptionLinesOfFirstBody(env) == CaptionLinesFirst(env)

CaptionLines(env) ==
    IF CaptionLinesFirst(env) # <<>> THEN CaptionLinesFirst(env)
    ELSE IF env.xmlBody.kind # "empty" THEN parseXml(env.xmlBody)
    ELSE <<>>

\* youtube.ts:84-173, the result or the error thrown
fetchCaptions(env) ==
    IF ~env.html.apiKey THEN CaptionError("Could not find YouTube API key")
    ELSE IF env.status # "OK" THEN CaptionError("Video not playable")
    ELSE IF env.captionTracks = <<>> THEN CaptionError("No captions available for this video")
    ELSE IF CaptionLines(env) = <<>>
         THEN CaptionError("Caption tracks found but content was empty")
    ELSE LET transcript == JoinWith(CaptionLines(env), "\n")
         IN  [ok |-> TRUE,
              title |-> VideoTitle(env.html),
              transcript |-> transcript,
              segments |-> Len(CaptionLines(env)),
              words |-> Len(SplitWs(transcript))]

\* the requests of youtube.ts:88, 102, 138 and 155, in order
captionFetches(env) ==
    IF ~env.html.apiKey THEN <<[to |-> "page"]>>
    ELSE IF env.status # "OK" \/ env.captionTracks = <<>>
         THEN <<[to |-> "page"], [to |-> "player"]>>
    ELSE LET track == selectBestTrack(env.captionTracks)
         IN  <<[to |-> "page"], [to |-> "player"],
               [to |-> "json3", baseUrl |-> track.baseUrl]>>
             \o (IF CaptionLinesFirst(env) = <<>>
                 THEN <<[to |-> "raw", baseUrl |-> track.baseUrl]>> ELSE <<>>)

MaxEvents == 2

\* events of a json3 body: a word, a newline only, no segs, two segs with
\* whitespace around and inside
EventLib ==
    {[segs |-> <<<<"hello">>>>], [segs |-> <<<<"world">>>>], [segs |-> <<<<"\n">>>>],
     [segs |-> <<>>], [segs |-> <<<<" ", "a">>, <<" ", " ", "b", "\n">>>>]}

\* the inner text of <text> elements
XmlTextLib ==
    {<<"hello">>, <<"world">>, <<"&nbsp;">>, <<"a", "\n", " ", "b", "&amp;", "c">>}

CapBodies ==
    {[kind |-> "empty"]}
    \cup {[kind |-> "json", events |-> e] : e \in SeqUpTo(EventLib, MaxEvents)}
    \cup {[kind |-> "xml", texts |-> t] : t \in SeqUpTo(XmlTextLib, MaxEvents)}

XmlBodies ==
    {[kind |-> "empty"]}
    \cup {[kind |-> "xml", texts |-> t] : t \in SeqUpTo(XmlTextLib, MaxEvents)}

AutoEnglishOnly == <<[languageCode |-> <<"en">>, kind |-> "asr", baseUrl |-> 1]>>

CaptionTrackLists ==
    {AutoEnglishOnly,
     <<[languageCode |-> <<"fr">>, kind |-> "asr", baseUrl |-> 1],
       [languageCode |-> <<"en">>, kind |-> "absent", baseUrl |-> 2]>>}

GoodHtml == {[title |-> <<"T", " - YouTube">>, apiKey |-> TRUE], [title |-> <<>>, apiKey |-> TRUE]}

InitCaptions ==
    /\ \/ /\ fcEnv \in [html : GoodHtml, status : {"OK"}, captionTracks : CaptionTrackLists,
                         capBody : CapBodies, xmlBody : XmlBodies]
       \/ /\ fcEnv \in [html : {[title |-> <<>>, apiKey |-> FALSE]} \cup GoodHtml,
                         status : {"OK", "LOGIN_REQUIRED"},
                         captionTracks : {<<>>} \cup CaptionTrackLists,
                         capBody : {[kind |-> "empty"]}, xmlBody : {[kind |-> "empty"]}]
    /\ fcResult = <<>>
    /\ fcFetches = <<>>
    /\ UrlIdle /\ ChunkIdle /\ TrackIdle /\ StripIdle /\ RunIdle /\ ExtraIdle

CallFetchCaptions ==
    /\ fcResult = <<>>
    /\ fcResult' = <<fetchCaptions(fcEnv)>>
    /\ fcFetches' = captionFetches(fcEnv)
    /\ UNCHANGED <<fcEnv, urlVars, chunkVars, trackVars, stripVars, runVars, extraVars>>

NextCaptions == CallFetchCaptions

SpecCaptions == InitCaptions /\ [][NextCaptions]_vars

-----------------------------------------------------------------------------
(* stripCommonText (site.ts) and SpecStrip *)

\* site.ts:360
WINDOW == 8

\* site.ts:339-352: the page fetchPage builds from a URL's title and text
SitePage(url, title, content) ==
    [url |-> url, title |-> title, content |-> content, words |-> Len(SplitWs(content))]

\* site.ts:364-367: the windows of one page, in order, repeats included
PageWindows(page) ==
    LET words == SplitWs(page.content)
    IN  [i \in 1..(IF Len(words) >= WINDOW THEN Len(words) - WINDOW + 1 ELSE 0) |->
            JoinWith(SubSeq(words, i, i + WINDOW - 1), " ")]

\* site.ts:365-371: a window counts once for a page (the set "seen")
Distinct(cs) ==
    LET kept == SelectSeq(Indices(cs), LAMBDA i : \A j \in 1..(i - 1) : cs[j] # cs[i])
    IN  [k \in 1..Len(kept) |-> cs[kept[k]]]

\* site.ts:361-373: chunkCounts, its keys in insertion order
ChunkOrder(pages) ==
    Distinct(Flatten([i \in 1..Len(pages) |-> Distinct(PageWindows(pages[i]))]))

\* the count without the set "seen": every occurrence of a window counts
ChunkCountOfOccurrences(pages, chunk) ==
    LET counted == Flatten([i \in 1..Len(pages) |-> PageWindows(pages[i])])
    IN  Len(SelectSeq(counted, LAMBDA c : c = chunk))

\* site.ts:363-373: chunkCounts.get(chunk) after the loop: one increment for
\* each page and each window of it that the page's set "seen" did not hold
ChunkCount(pages, chunk) ==
    LET counted == Flatten([i \in 1..Len(pages) |-> Distinct(PageWindows(pages[i]))])
    IN  Len(SelectSeq(counted, LAMBDA c : c = chunk))

\* site.ts:376-380
CommonChunks(pages) ==
    LET threshold == (Len(pages) * 8) \div 10
    IN  SelectSeq(ChunkOrder(pages), LAMBDA c : ChunkCount(pages, c) >= threshold)

\* site.ts:387-389: the removals, one chunk after the other
RECURSIVE RemoveChunks(_, _)
RemoveChunks(content, chunks) ==
    IF chunks = <<>> THEN content
    ELSE RemoveChunks(RemoveAll(content, Head(chunks)), Tail(chunks))

\* site.ts:385-396
StripPage(page, chunks) ==
    LET content == Trim(CollapseWs(RemoveChunks(page.content, chunks)))
    IN  [page EXCEPT !.content = content, !.words = Len(SplitWs(content))]

\* site.ts:358-396, what follows the test of the number of pages
StripPages(pages) ==
    LET chunks == CommonChunks(pages)
    IN  IF chunks = <<>> THEN pages
        ELSE [i \in 1..Len(pages) |-> StripPage(pages[i], chunks)]

\* stripCommonText with the test "pages.length < 2"
stripCommonTextFromTwoPages(pages) == IF Len(pages) < 2 THEN pages ELSE StripPages(pages)

\* site.ts:355-397
stripCommonText(pages) == IF Len(pages) < 3 THEN pages ELSE StripPages(pages)

MaxStripPages == 3

\* eight words that pages share
SharedPhrase == <<"a", " ", "b", " ", "c", " ", "d", " ", "e", " ", "f", " ", "g", " ", "h">>

\* page texts as htmlToText leaves them: words, single spaces between them
PageTexts ==
    {<<"x", " ">> \o SharedPhrase,
     SharedPhrase \o <<" ", "y">>,
     <<"a", " ", "b", " ", "c", " ", "d", " ">> \o SharedPhrase
        \o <<" ", "e", " ", "f", " ", "g", " ", "h">>,
     <<"x", " ", "y", " ", "z">>,
     SharedPhrase,
     SharedPhrase \o <<" ">> \o SharedPhrase}

InitStrip ==
    /\ \E n \in 0..MaxStripPages :
          \E t \in [1..n -> PageTexts] :
             scPages = [i \in 1..n |-> SitePage(i, <<"Untitled">>, t[i])]
    /\ scResult = <<>>
    /\ UrlIdle /\ ChunkIdle /\ TrackIdle /\ CapIdle /\ RunIdle /\ ExtraIdle

CallStripCommonText ==
    /\ scResult = <<>>
    /\ scResult' = <<stripCommonText(scPages)>>
    /\ UNCHANGED <<scPages, urlVars, chunkVars, trackVars, capVars, runVars, extraVars>>

NextStrip == CallStripCommonText

SpecStrip == InitStrip /\ [][NextStrip]_vars

-----------------------------------------------------------------------------
(* Storage: the files of ~/.elsummariz00r, as storage.ts writes and reads *)
(* them.  A directory is a function from slugs to file texts; an absent    *)
(* value (null, undefined) is <<>> and a present one is <<value>>.         *)

\* the files of a directory after Bun.write(join(dir, slug + ext), text)
Put(dir, slug, text) ==
    [s \in DOMAIN dir \cup {slug} |-> IF s = slug THEN text ELSE dir[s]]

\* new Date().toISOString().slice(0, 10) on day d
DateToken(d) == ToString(d)

\* the words of a title and their lower-case forms
LowerWord(t) ==
    CASE t = "Foo" -> "foo" [] t = "Bar" -> "bar" [] OTHER -> t

\* what [^a-z0-9\s-] matches in a lower-cased title: punctuation
IsPunct(t) == t \in {"!", "\"", "\\\"", ":", "(", ")"}

\* a run of "-"
IsDashes(t) == t \in {"-", "---"}

RECURSIVE DropDashes(_)
DropDashes(s) == IF s # <<>> /\ IsDashes(Head(s)) THEN DropDashes(Tail(s)) ELSE s

\* s.replace(/-+/g, "-")
RECURSIVE CollapseDashes(_)
CollapseDashes(s) ==
    IF s = <<>> THEN <<>>
    ELSE IF IsDashes(Head(s)) THEN <<"-">> \o CollapseDashes(DropDashes(s))
    ELSE <<Head(s)>> \o CollapseDashes(Tail(s))

\* storage.ts:59-69; slice(0, 60) cuts nothing from the short titles here
generateSlug(title, day) ==
    LET lower == [i \in 1..Len(title) |-> LowerWord(title[i])]
        kept == SelectSeq(lower, LAMBDA t : ~IsPunct(t))
        spaced == CollapseWs(kept)
        dashed == [i \in 1..Len(spaced) |-> IF spaced[i] = " " THEN "-" ELSE spaced[i]]
        one == CollapseDashes(dashed)
        sanitized == IF one # <<>> /\ one[Len(one)] = "-"
                     THEN SubSeq(one, 1, Len(one) - 1) ELSE one
    IN  <<DateToken(day), "_">> \o sanitized

\* meta.title.replace(/"/g, '\\"')
EscapeQuotes(title) ==
    [i \in 1..Len(title) |-> IF title[i] = "\"" THEN "\\\"" ELSE title[i]]

\* storage.ts:78-86
frontmatter(meta, day) ==
    <<"---", "\n", "title:", " ", "\"">> \o EscapeQuotes(meta.title) \o <<"\"", "\n",
      "url:", " ">> \o meta.url \o <<"\n",
      "date:", " ", DateToken(day), "\n",
      "type:", " ", meta.type, "\n",
      "words:", " ", ToString(meta.words), "\n",
      "---">>

\* storage.ts:88-106: the text saveArticle and saveSummary write
FileText(meta, content, day) == frontmatter(meta, day) \o <<"\n", "\n">> \o content

\* the positions where ^key matches with the m flag: key at a line start
LineStarts(text, key) ==
    {i \in 1..Len(text) : text[i] = key /\ (i = 1 \/ text[i - 1] = "\n")}

\* what \s*(.+)$ captures from position i on: \s* runs over all whitespace,
\* (.+) takes the rest of the line it stops on; <<>> when nothing is left
RestOfLine(text, i) ==
    LET nonWs == {j \in i..Len(text) : ~IsWs(text[j])}
    IN  IF nonWs = {} THEN <<>>
        ELSE LET a == SetMin(nonWs)
                 b == FirstIndex(text, "\n", a) - 1
             IN  SubSeq(text, a, b)

\* text.match(/^url:\s*(.+)$/m)?.[1]?.trim(), <<>> when there is no match
UrlLine(text) ==
    LET hits == {i \in LineStarts(text, "url:") : RestOfLine(text, i + 1) # <<>>}
    IN  IF hits = {} THEN <<>> ELSE Trim(RestOfLine(text, SetMin(hits) + 1))

\* summaryText.match(/^title:\s*"(.+)"$/m)?.[1]: between the quote that
\* follows "title:" and the last quote of the line, which must end the line
TitleLine(text) ==
    LET cap(i) == RestOfLine(text, i + 1)
        ok(i) == LET c == cap(i) IN
                 Len(c) >= 3 /\ c[1] = "\"" /\ c[Len(c)] = "\""
        hits == {i \in LineStarts(text, "title:") : ok(i)}
    IN  IF hits = {} THEN <<>>
        ELSE LET c == cap(SetMin(hits)) IN SubSeq(c, 2, Len(c) - 1)

\* summaryText.replace(/^---[\s\S]*?---\n*/, ""): a text that starts with
\* "---" loses everything up to the next "---" and the newlines after it
StripFrontmatter(text) ==
    IF text = <<>> \/ text[1] # "---" THEN text
    ELSE LET close == FirstIndex(text, "---", 2)
         IN  IF close > Len(text) THEN text
             ELSE LET after == {j \in (close + 1)..Len(text) : text[j] # "\n"}
                  IN  IF after = {} THEN <<>> ELSE Tail0(text, SetMin(after))

\* storage.ts:30-51: the slugs of the articles whose url line has the key of
\* url.  findByUrl returns the first of them in readdir order, an order the
\* file system chooses, so each of them can be the one returned.
findByUrl(url, dir) ==
    {slug \in DOMAIN dir :
        UrlLine(dir[slug]) # <<>>
        /\ normalizeUrl(UrlLine(dir[slug])) = normalizeUrl(url)}

\* storage.ts:8 behind "file://", with the "/" that ends it
HtmlPrefix == <<"file://", "/home/.elsummariz00r/html/">>

\* join(HTML_DIR, slug + ".html")
HtmlPath(slug) == <<"/home/.elsummariz00r/html/">> \o slug \o <<".html">>

\* s.replace(".html", ""): the first occurrence
RECURSIVE RemoveFirst(_, _)
RemoveFirst(s, t) ==
    IF s = <<>> THEN <<>>
    ELSE IF Head(s) = t THEN Tail(s) ELSE <<Head(s)>> \o RemoveFirst(Tail(s), t)

\* storage.ts:142-156: the source URL of one of our HTML files, else <<>>
resolveSourceUrl(url, dir) ==
    IF ~StartsWith(url, HtmlPrefix) THEN <<>>
    ELSE LET slug == RemoveFirst(Tail0(url, Len(HtmlPrefix) + 1), ".html")
         IN  IF \E i \in 1..Len(slug) : slug[i] \in {"/", "\\"} THEN <<>>
             ELSE IF slug \notin DOMAIN dir THEN <<>>
             ELSE UrlLine(dir[slug])

\* a lookup that takes the stored article for the cached result, the
\* summary file read or not
getCachedResultOfArticle(slug, sums) ==
    LET summaryText == IF slug \in DOMAIN sums THEN sums[slug] ELSE <<>>
        titleMatch == TitleLine(summaryText)
    IN  <<[slug |-> slug,
           title |-> IF titleMatch # <<>> THEN titleMatch ELSE slug,
           summary |-> Trim(StripFrontmatter(summaryText)),
           htmlPath |-> HtmlPath(slug),
           cached |-> TRUE]>>

\* run.ts:39-54 once findByUrl returned slug: <<>> for null
getCachedResult(slug, sums) ==
    IF slug \notin DOMAIN sums \/ sums[slug] = <<>> THEN <<>>
    ELSE LET summaryText == sums[slug]
             body == Trim(StripFrontmatter(summaryText))
             titleMatch == TitleLine(summaryText)
         IN  <<[slug |-> slug,
                title |-> IF titleMatch # <<>> THEN titleMatch ELSE slug,
                summary |-> body,
                htmlPath |-> HtmlPath(slug),
                cached |-> TRUE]>>

-----------------------------------------------------------------------------
(* The collaborators of the orchestrator *)

\* youtube.ts:11-13: /youtube\.com\/watch|youtu\.be\//.test(url)
isYouTube(url) ==
    \E i \in 1..Len(url) :
        \/ /\ url[i] = "youtube.com" /\ i + 2 <= Len(url)
           /\ url[i + 1] = "/" /\ url[i + 2] = "watch"
        \/ url[i] = "youtu.be" /\ i + 1 <= Len(url) /\ url[i + 1] = "/"

\* youtube.ts:15-20: the pattern of normalizeUrl without shorts/ and live/
extractVideoId(url) ==
    LET n == Len(url)
        tok(j) == IF j <= n THEN url[j] ELSE "<end>"
        at(i) ==
            LET vs == {j \in (i + 4)..n : url[j] = "v=" /\ tok(j + 1) \in IdTokens}
            IN  IF tok(i) = "youtube.com" /\ tok(i + 1) = "/" /\ tok(i + 2) = "watch"
                   /\ tok(i + 3) = "?" /\ vs # {}
                THEN url[SetMax(vs) + 1]
                ELSE IF tok(i) = "youtu.be" /\ tok(i + 1) = "/" /\ tok(i + 2) \in IdTokens
                THEN url[i + 2]
                ELSE NoMatch
        starts == {i \in 1..n : at(i) # NoMatch}
    IN  IF starts = {} THEN NoMatch ELSE at(SetMin(starts))

\* site.ts:252-255 for a url that new URL() accepts
getRootUrl(url) == LET u == ParseUrl(url) IN <<u.protocol>> \o u.host

Tab(id, title, url) == [id |-> id, title |-> title, url |-> url]

\* the first tab whose URL is the requested one or a prefix of it
findTabByUrlAbove(tl, url) ==
    LET hits == {i \in 1..Len(tl) : tl[i].url = url \/ StartsWith(url, tl[i].url)}
    IN  IF hits = {} THEN <<>> ELSE <<tl[SetMin(hits)]>>

\* cdp.ts:24-26: the first tab at the url or below it, <<>> when there is none
findTabByUrl(tl, url) ==
    LET hits == {i \in 1..Len(tl) : tl[i].url = url \/ StartsWith(tl[i].url, url)}
    IN  IF hits = {} THEN <<>> ELSE <<tl[SetMin(hits)]>>

\* pieces.join(sep) for a separator of several tokens
RECURSIVE JoinSeq(_, _)
JoinSeq(pieces, sep) ==
    IF pieces = <<>> THEN <<>>
    ELSE IF Len(pieces) = 1 THEN pieces[1]
    ELSE pieces[1] \o sep \o JoinSeq(Tail(pieces), sep)

\* run.ts:177-179 and 196-198: the pages of a site or of a chunk as one text
SiteContent(pages) ==
    JoinSeq([i \in 1..Len(pages) |->
                <<"--- ">> \o pages[i].title \o <<" (">> \o pages[i].url
                    \o <<") ---", "\n">> \o pages[i].content],
            <<"\n", "\n">>)

\* run.ts:215-217: the partial summaries, each under its label
mergeContent(chunkSummaries) ==
    JoinSeq([i \in 1..Len(chunkSummaries) |->
                <<"--- Part ", ToString(i), " of ", ToString(Len(chunkSummaries)),
                  " ---", "\n">> \o chunkSummaries[i]],
            <<"\n", "\n">>)

RECURSIVE totalWordsOf(_)
totalWordsOf(pages) ==
    IF pages = <<>> THEN 0 ELSE Head(pages).words + totalWordsOf(Tail(pages))

\* a Promise.all that goes on with the pages that were fetched
PromiseAllSettled(oks) == \E i \in 1..Len(oks) : oks[i]

\* site.ts:421: Promise.all is fulfilled when every fetchPage is, and
\* rejected as soon as one of them is
PromiseAll(oks) == \A i \in 1..Len(oks) : oks[i]

\* fetchSiteResult with the filter "p.words >= 20"
fetchSiteResultFrom20(rootUrl, title, cleaned) ==
    LET meaningful == SelectSeq(cleaned, LAMBDA p : p.words >= 20)
    IN  [rootUrl |-> rootUrl, title |-> title, pages |-> meaningful,
         totalWords |-> totalWordsOf(meaningful)]

\* site.ts:426-441: what fetchSite returns for the pages it cleaned
fetchSiteResult(rootUrl, title, cleaned) ==
    LET meaningful == SelectSeq(cleaned, LAMBDA p : p.words > 20)
    IN  [rootUrl |-> rootUrl, title |-> title, pages |-> meaningful,
         totalWords |-> totalWordsOf(meaningful)]

-----------------------------------------------------------------------------
(* Spec: invocations of runSummarize and runSummarizeSite (run.ts), one     *)
(* after the other, over the same storage.  An action is one awaited call   *)
(* of the code with the statements that follow it up to the next await.     *)

MAX_SITE_WORDS == 60000

MaxRuns == 2
MaxSitePages == 2

otherVars == <<urlVars, chunkVars, trackVars, capVars, stripVars, extraVars>>

\* the inputs: page titles, one of them with a "---"; a web page with and
\* without a trailing slash; a video; a watch link without a video id; the
\* HTML files written so far
Titles == {<<"Foo">>, <<"Foo", " ", "---", " ", "Bar">>}
OptTitles == {<<>>, <<"Foo">>}
PageUrl == <<"https://", "ex.com", "/", "a">>
RunUrls ==
    {PageUrl, PageUrl \o <<"/">>,
     <<"https://", "www.", "youtube.com", "/", "watch", "?", "v=", "AAAAAAAAAAA">>,
     <<"https://", "youtube.com", "/", "watch", "?", "list=1">>}
HtmlUrls == {HtmlPrefix \o slug \o <<".html">> : slug \in DOMAIN htmls}
TabLists == {<<>>} \cup {<<Tab(1, t, u)>> : t \in Titles, u \in RunUrls \cup HtmlUrls}
RunTexts == {<<"alpha", " ", "beta">>}
Transcript == <<"hello", "\n", "world">>
Summaries == {<<"S1">>, <<"S2">>}
VideoTitles == {<<"Foo">>}
SiteTitles == {<<"Foo">>}
SiteWordChoices == {30000, 61000}
CleanedPages(rootUrl, title, ws) ==
    [i \in 1..Len(ws) |->
        [url |-> rootUrl \o <<"/", ToString(i)>>, title |-> title,
         content |-> <<"text", ToString(i)>>, words |-> ws[i]]]

SummarizeOpts ==
    [url : {<<>>} \cup RunUrls \cup HtmlUrls, title : OptTitles, redo : BOOLEAN]
SiteOpts ==
    [url : {<<>>, PageUrl} \cup HtmlUrls, title : {<<>>}, redo : BOOLEAN]

NoOpts == [url |-> <<>>, title |-> <<>>, redo |-> FALSE]

NewRun(fn, opts) ==
    [fn |-> fn, opts |-> opts, targetUrl |-> <<>>, url |-> <<>>, title |-> <<>>,
     type |-> "", content |-> <<>>, words |-> 0, pages |-> 0, fetched |-> <<>>,
     site |-> <<>>,
     chunks |-> <<>>, chunkSummaries |-> <<>>, summary |-> <<>>, slug |-> <<>>,
     error |-> ""]

NoCalls ==
    [findByUrl |-> 0, extractText |-> 0, openUrl |-> 0, fetchCaptions |-> 0,
     fetchSite |-> 0, summarize |-> <<>>, writes |-> <<>>]

Init ==
    /\ articles = <<>> /\ summaries = <<>> /\ htmls = <<>> /\ savedSummary = <<>>
    /\ tabs = <<>> /\ today = 1 /\ pc = "idle" /\ run = NewRun("", NoOpts)
    /\ result = <<>> /\ calls = NoCalls /\ runs = 0
    /\ UrlIdle /\ ChunkIdle /\ TrackIdle /\ CapIdle /\ StripIdle /\ ExtraIdle

Resting == pc \in {"idle", "done", "failed"}

\* the invocation ends with a thrown error
Throw(r, msg) ==
    /\ pc' = "failed" /\ run' = [r EXCEPT !.error = msg] /\ result' = <<>>

\* the cache is looked up whether or not the run is forced
ShouldCheckCacheAlways(opts) == TRUE

\* ShouldCheckCache with the test "if (opts.redo)"
ShouldCheckCacheOnRedo(opts) == opts.redo

\* run.ts:80 and 168: if (!opts.redo)
ShouldCheckCache(opts) == ~opts.redo

\* run.ts:39-54: what getCachedResult(url, type) can return, <<>> for null;
\* findByUrl (storage.ts:31) takes the url only, the type is not looked at
CacheOutcomes(url) ==
    LET found == findByUrl(url, articles)
    IN  IF found = {} THEN {<<>>}
        ELSE {getCachedResult(slug, summaries) : slug \in found}

\* run.ts:79-83 and 167-171: the dedup check, then extraction or the return
CheckCache(r, url, next) ==
    LET check == ShouldCheckCache(r.opts)
    IN  /\ calls' = [NoCalls EXCEPT !.findByUrl = IF check THEN 1 ELSE 0]
        /\ \E cached \in (IF check THEN CacheOutcomes(url) ELSE {<<>>}) :
              IF cached # <<>>
              THEN pc' = "done" /\ result' = cached /\ run' = r
              ELSE pc' = next /\ result' = <<>> /\ run' = r

\* run.ts:56-83
BeginSummarizeWith(options) ==
    /\ Resting /\ runs < MaxRuns
    /\ \E opts \in options :
          LET sourceUrl == IF opts.url # <<>>
                           THEN resolveSourceUrl(opts.url, articles) ELSE <<>>
              given == IF sourceUrl # <<>> THEN sourceUrl ELSE opts.url
              r == NewRun("runSummarize", opts)
              from(targetUrl) ==
                  CheckCache([r EXCEPT !.targetUrl = targetUrl, !.url = targetUrl],
                             targetUrl, "extract")
          IN  IF given # <<>>
              THEN tabs' = <<>> /\ from(given)
              ELSE \E tl \in TabLists :
                      /\ tabs' = <<tl>>
                      /\ IF tl = <<>>
                         THEN Throw(r, "No browser tabs found") /\ calls' = NoCalls
                         ELSE from(tl[1].url)
    /\ runs' = runs + 1
    /\ UNCHANGED <<storeVars, today, otherVars>>

BeginSummarize == BeginSummarizeWith(SummarizeOpts)

\* run.ts:145-171
BeginSummarizeSiteWith(options) ==
    /\ Resting /\ runs < MaxRuns
    /\ \E opts \in options :
          LET r == NewRun("runSummarizeSite", opts)
              from(first) ==
                  LET sourceUrl == resolveSourceUrl(first, articles)
                      targetUrl == IF sourceUrl # <<>> THEN sourceUrl ELSE first
                  IN  IF ~ParseUrl(targetUrl).ok
                      THEN Throw(r, "Invalid URL") /\ calls' = NoCalls
                      ELSE CheckCache([r EXCEPT !.targetUrl = targetUrl,
                                                !.url = getRootUrl(targetUrl)],
                                      getRootUrl(targetUrl), "fetchSite")
          IN  IF opts.url # <<>>
              THEN tabs' = <<>> /\ from(opts.url)
              ELSE \E tl \in TabLists :
                      /\ tabs' = <<tl>>
                      /\ IF tl = <<>>
                         THEN Throw(r, "No browser tabs found") /\ calls' = NoCalls
                         ELSE from(tl[1].url)
    /\ runs' = runs + 1
    /\ UNCHANGED <<storeVars, today, otherVars>>

BeginSummarizeSite == BeginSummarizeSiteWith(SiteOpts)

\* run.ts:90-99: the captions of a video
ExtractVideo ==
    IF extractVideoId(run.url) = NoMatch
    THEN Throw(run, "Could not parse YouTube video ID") /\ UNCHANGED <<calls, tabs>>
    ELSE /\ calls' = [calls EXCEPT !.fetchCaptions = @ + 1]
         /\ UNCHANGED tabs
         /\ \/ \E t \in VideoTitles :
                 /\ pc' = "summarize" /\ result' = <<>>
                 /\ run' = [run EXCEPT !.type = "youtube", !.content = Transcript,
                                       !.title = t,
                                       !.words = Len(SplitWs(Transcript))]
            \/ Throw(run, "No captions available")

\* run.ts:110 and 116: extractText on a tab, and the title of the run
ExtractFrom(tab, n) ==
    /\ calls' = [calls EXCEPT !.extractText = @ + 1, !.openUrl = @ + n]
    /\ \/ \E text \in RunTexts :
            /\ pc' = "summarize" /\ result' = <<>>
            /\ run' = [run EXCEPT !.type = "web", !.content = text,
                                  !.title = IF run.opts.title # <<>>
                                            THEN run.opts.title ELSE tab.title,
                                  !.words = Len(SplitWs(text))]
       \/ Throw(run, "CDP eval timed out")

\* run.ts:101-118: the text of a web page, from its tab or from a new one
ExtractWeb ==
    \E tl \in (IF tabs = <<>> THEN TabLists ELSE {tabs[1]}) :
       LET found == findTabByUrl(tl, run.url)
       IN  IF found # <<>>
           THEN tabs' = <<tl>> /\ ExtractFrom(found[1], 0)
           ELSE \/ /\ Throw(run, "Timed out waiting for page to load")
                   /\ calls' = [calls EXCEPT !.openUrl = @ + 1]
                   /\ tabs' = <<tl>>
                \/ \E t \in Titles :
                      LET opened == Tab(Len(tl) + 1, t, run.url)
                      IN  tabs' = <<Append(tl, opened)>> /\ ExtractFrom(opened, 1)

\* run.ts:85-118
Extract ==
    /\ pc = "extract"
    /\ IF isYouTube(run.url) THEN ExtractVideo ELSE ExtractWeb
    /\ UNCHANGED <<storeVars, today, runs, otherVars>>

\* the single pass is taken only below the budget
SinglePassBelow(site) == site.totalWords < MAX_SITE_WORDS

\* run.ts:183: if (site.totalWords <= MAX_SITE_WORDS)
SinglePass(site) == site.totalWords <= MAX_SITE_WORDS

\* run.ts:174-179
FetchSite ==
    /\ pc = "fetchSite"
    /\ calls' = [calls EXCEPT !.fetchSite = @ + 1]
    /\ \/ \E t \in SiteTitles, n \in 1..MaxSitePages :
            \E oks \in [1..n -> BOOLEAN] :
               IF PromiseAll(oks)
               THEN \E ws \in [1..n -> SiteWordChoices] :
                       LET site == fetchSiteResult(run.url, t,
                                                   CleanedPages(run.url, t, ws))
                       IN  /\ run' = [run EXCEPT !.fetched = oks,
                                                 !.site = <<site>>,
                                                 !.title = site.title,
                                                 !.type = "site",
                                                 !.content = SiteContent(site.pages),
                                                 !.words = site.totalWords,
                                                 !.pages = Len(site.pages)]
                           /\ pc' = IF SinglePass(site) THEN "summarize" ELSE "chunks"
                           /\ result' = <<>>
               ELSE Throw([run EXCEPT !.fetched = oks], "fetch failed")
       \/ Throw(run, "fetch failed")
    /\ UNCHANGED <<storeVars, tabs, today, runs, otherVars>>

\* the argument list of one summarize call
OracleCall(content, type) ==
    [content |-> content, title |-> run.title, url |-> run.url, type |-> type]

\* a rejected call that is awaited again
OracleFailureRetried(r) == pc' = pc /\ run' = r /\ result' = <<>>

\* run.ts:121, 186, 208 and 218: summarize rejects, the await throws
OracleFailure(r) == Throw(r, "SDK error")

\* the article write left out: the summary is the first file written
SummarizedSkipsArticle(s) ==
    /\ pc' = "saveSummary" /\ result' = <<>>
    /\ run' = [run EXCEPT !.summary = s, !.slug = generateSlug(run.title, today)]

\* run.ts:124 and 227: the summary is in, the slug is made
Summarized(s) ==
    /\ pc' = "saveArticle" /\ result' = <<>>
    /\ run' = [run EXCEPT !.summary = s, !.slug = generateSlug(run.title, today)]

\* run.ts:121 and 186-190: the one call over the whole content
Summarize ==
    /\ pc = "summarize"
    /\ calls' = [calls EXCEPT !.summarize = Append(@, OracleCall(run.content, run.type))]
    /\ \/ \E s \in Summaries : Summarized(s)
       \/ OracleFailure(run)
    /\ UNCHANGED <<storeVars, tabs, today, runs, otherVars>>

\* run.ts:193-211: the chunks, and one call for each, all issued at once
StartChunks ==
    /\ pc = "chunks"
    /\ LET chunks == chunkPages(run.site[1].pages, MAX_SITE_WORDS)
       IN  /\ run' = [run EXCEPT !.chunks = chunks,
                                 !.chunkSummaries = [i \in 1..Len(chunks) |-> <<>>]]
           /\ calls' = [calls EXCEPT !.summarize =
                          @ \o [i \in 1..Len(chunks) |->
                                   OracleCall(SiteContent(chunks[i]), "site")]]
    /\ pc' = "awaitChunks"
    /\ UNCHANGED <<storeVars, tabs, today, result, runs, otherVars>>

\* run.ts:201-208: one chunk call returns, or rejects and with it Promise.all
ChunkReturns ==
    /\ pc = "awaitChunks"
    /\ \E i \in 1..Len(run.chunks) :
          /\ run.chunkSummaries[i] = <<>>
          /\ \/ \E s \in Summaries :
                  LET sums == [run.chunkSummaries EXCEPT ![i] = <<s>>]
                  IN  /\ run' = [run EXCEPT !.chunkSummaries = sums]
                      /\ pc' = IF \A j \in 1..Len(sums) : sums[j] # <<>>
                               THEN "merge" ELSE "awaitChunks"
                      /\ result' = <<>>
             \/ OracleFailure(run)
    /\ UNCHANGED <<storeVars, tabs, today, calls, runs, otherVars>>

\* run.ts:213-223: the merge call over the labelled partial summaries
Merge ==
    /\ pc = "merge"
    /\ LET parts == [i \in 1..Len(run.chunkSummaries) |-> run.chunkSummaries[i][1]]
       IN  calls' = [calls EXCEPT !.summarize =
                        Append(@, OracleCall(mergeContent(parts), "site-merge"))]
    /\ \/ \E s \in Summaries : Summarized(s)
       \/ OracleFailure(run)
    /\ UNCHANGED <<storeVars, tabs, today, runs, otherVars>>

\* run.ts:126 and 228
Meta == [title |-> run.title, url |-> run.url, type |-> run.type, words |-> run.words]

\* run.ts:128 and 230 with storage.ts:88-96
SaveArticle ==
    /\ pc = "saveArticle"
    /\ articles' = Put(articles, run.slug, FileText(Meta, run.content, today))
    /\ calls' = [calls EXCEPT !.writes = Append(@, <<"articles", run.slug>>)]
    /\ pc' = "saveSummary"
    /\ UNCHANGED <<summaries, htmls, savedSummary, tabs, today, run, result, runs,
                   otherVars>>

\* run.ts:129 and 231 with storage.ts:98-106
SaveSummary ==
    /\ pc = "saveSummary"
    /\ summaries' = Put(summaries, run.slug, FileText(Meta, run.summary, today))
    /\ savedSummary' = Put(savedSummary, run.slug, run.summary)
    /\ calls' = [calls EXCEPT !.writes = Append(@, <<"summaries", run.slug>>)]
    /\ pc' = "saveHTML"
    /\ UNCHANGED <<articles, htmls, tabs, today, run, result, runs, otherVars>>

\* run.ts:131-142 and 233-246 with storage.ts:108-112; the page that
\* generateHTML renders is kept as the values it is given
SaveHTML ==
    /\ pc = "saveHTML"
    /\ htmls' = Put(htmls, run.slug,
                    [title |-> run.title, url |-> run.url, type |-> run.type,
                     date |-> DateToken(today), words |-> run.words,
                     pages |-> run.pages, summary |-> run.summary])
    /\ calls' = [calls EXCEPT !.writes = Append(@, <<"html", run.slug>>)]
    /\ result' = <<[slug |-> run.slug, title |-> run.title, summary |-> run.summary,
                    htmlPath |-> HtmlPath(run.slug), cached |-> FALSE]>>
    /\ pc' = "done"
    /\ UNCHANGED <<articles, summaries, savedSummary, tabs, today, run, runs, otherVars>>

\* a write throws, or the process is killed, before the next file is written
WriteFails ==
    /\ pc \in {"saveArticle", "saveSummary", "saveHTML"}
    /\ Throw(run, "write failed")
    /\ UNCHANGED <<storeVars, tabs, today, calls, runs, otherVars>>

Next ==
    \/ BeginSummarize \/ BeginSummarizeSite
    \/ Extract \/ FetchSite
    \/ Summarize \/ StartChunks \/ ChunkReturns \/ Merge
    \/ SaveArticle \/ SaveSummary \/ SaveHTML
    \/ WriteFails

Spec == Init /\ [][Next]_vars

\* SpecNonForced: the invocations without redo, on a disk whose writes succeed
NonForced(options) == {opts \in options : ~opts.redo}

BeginNonForced == BeginSummarizeWith(NonForced(SummarizeOpts))

BeginSiteNonForced == BeginSummarizeSiteWith(NonForced(SiteOpts))

NextNonForced ==
    \/ BeginNonForced \/ BeginSiteNonForced
    \/ Extract \/ FetchSite
    \/ Summarize \/ StartChunks \/ ChunkReturns \/ Merge
    \/ SaveArticle \/ SaveSummary \/ SaveHTML

SpecNonForced == Init /\ [][NextNonForced]_vars

-----------------------------------------------------------------------------
(* fetchSite (site.ts) and SpecSite: discovery by sitemap or by crawl, the  *)
(* parallel fetch of the pages, stripping, filtering and the totals.        *)

SiteRoot == <<"https://", "ex.com">>
SiteA == SiteRoot \o <<"/", "a">>
SiteB == SiteRoot \o <<"/", "b">>

\* site.ts:258-274: htmlToText on the text between the tags of a body
htmlToText(body) == Trim(CollapseWs(body))

\* site.ts:277-283: the text of <title> or <h1>, <<>> when the page has none
extractTitle(html) == IF html.title # <<>> THEN Trim(html.title) ELSE <<"Untitled">>

\* site.ts:339-352
fetchPage(url, html) == SitePage(url, extractTitle(html), htmlToText(html.body))

\* fetchSitemap with "return urls" for its last statement
fetchSitemapOfAnyLength(answer) ==
    IF answer.fetched /\ answer.ok /\ answer.urlset THEN <<answer.locs>> ELSE <<>>

\* site.ts:286-305: the trimmed <loc> entries of sitemap.xml, <<>> for null:
\* after a rejected fetch, a status that is not ok, a text without
\* "<urlset", and for a sitemap without any entry
fetchSitemap(answer) ==
    IF answer.fetched /\ answer.ok /\ answer.urlset /\ answer.locs # <<>>
    THEN <<answer.locs>> ELSE <<>>

\* site.ts:323-329: a link is kept when it starts with the root and has no
\* fragment, without its trailing slash
CleanLink(resolved) ==
    IF EndsWith(resolved, <<"/">>) THEN SubSeq(resolved, 1, Len(resolved) - 1)
    ELSE resolved

KeepsLink(rootUrl, resolved) ==
    /\ StartsWith(resolved, rootUrl)
    /\ \A i \in 1..Len(resolved) : resolved[i] # "#"

\* site.ts:314-335: the Set of URLs in insertion order, the root first
crawlLinks(rootUrl, hrefs) ==
    LET kept == SelectSeq(hrefs, LAMBDA h : KeepsLink(rootUrl, h))
        clean == [i \in 1..Len(kept) |->
                    IF CleanLink(kept[i]) = <<>> THEN rootUrl ELSE CleanLink(kept[i])]
    IN  Distinct(<<rootUrl>> \o clean)

\* site.ts:430-431
siteTitle(rootUrl, pages) ==
    LET roots == {i \in 1..Len(pages) :
                    pages[i].url = rootUrl \/ pages[i].url = rootUrl \o <<"/">>}
    IN  IF roots # {} /\ pages[SetMin(roots)].title # <<>>
        THEN pages[SetMin(roots)].title
        ELSE ParseUrl(rootUrl).host

\* site.ts:426-441, after the stripping
fetchSiteBuild(rootUrl, pages, cleaned) ==
    fetchSiteResult(rootUrl, siteTitle(rootUrl, pages), cleaned)

\* n distinct words of the page numbered i
OwnWords(i, n) ==
    [k \in 1..(IF n = 0 THEN 0 ELSE 2 * n - 1) |->
        IF k % 2 = 1 THEN ToString(i) \o "w" \o ToString((k + 1) \div 2) ELSE " "]

\* what the body of the page numbered i can hold: a navigation phrase that
\* the pages share, words of its own, whitespace as the markup leaves it
Bodies(i) ==
    {OwnWords(i, 20),
     <<"\n", " ">> \o OwnWords(i, 21) \o <<"\n">>,
     SharedPhrase \o <<" ", "\n">> \o OwnWords(i, 20),
     SharedPhrase \o <<" ">> \o OwnWords(i, 21)}

PageTitles == {<<>>, <<"Docs">>}

\* the links of the root page, resolved against the root
HrefLists ==
    {<<>>,
     <<SiteA \o <<"/">>, SiteRoot \o <<"/">>, SiteA, SiteB \o <<"#", "top">>,
       <<"https://", "other.org", "/", "a">>>>}

\* the locations of sitemap.xml
LocLists == {<<>>, <<SiteRoot \o <<"/">>, SiteA>>, <<SiteB, SiteA, SiteRoot>>}

InitSite ==
    /\ fsEnv = [url |-> SiteA]
    /\ fsPc = "sitemap" /\ fsUrls = <<>> /\ fsPages = <<>> /\ fsCleaned = <<>>
    /\ fsResult = <<>>
    /\ UrlIdle /\ ChunkIdle /\ TrackIdle /\ CapIdle /\ StripIdle /\ RunIdle
    /\ FindIdle /\ DiscussIdle /\ RaceIdle /\ MoreIdle

SiteFrame == UNCHANGED <<fsEnv, baseVars, findVars, discussVars, raceVars, moreVars>>

SiteThrow(msg) ==
    /\ fsPc' = "failed"
    /\ fsResult' = <<[ok |-> FALSE, error |-> msg]>>

\* what sitemap.xml can answer
SitemapAnswers == [fetched : BOOLEAN, ok : BOOLEAN, urlset : BOOLEAN, locs : LocLists]

\* site.ts:415-417: pageUrls is set, and the test of its length
Discovered(urls) ==
    /\ fsUrls' = urls
    /\ IF Len(urls) = 0
       THEN SiteThrow("No pages found on site")
       ELSE fsPc' = "fetch" /\ fsResult' = fsResult

\* site.ts:406-417, the sitemap first
Sitemap ==
    /\ fsPc = "sitemap"
    /\ \E answer \in SitemapAnswers :
          LET found == fetchSitemap(answer)
          IN  IF found # <<>>
              THEN Discovered(found[1])
              ELSE fsUrls' = fsUrls /\ fsPc' = "crawl" /\ fsResult' = fsResult
    /\ UNCHANGED <<fsPages, fsCleaned>>
    /\ SiteFrame

\* site.ts:411-417, the crawl when there is no sitemap
Crawl ==
    /\ fsPc = "crawl"
    /\ \/ \E hrefs \in HrefLists : Discovered(crawlLinks(getRootUrl(fsEnv.url), hrefs))
       \/ SiteThrow("fetch failed") /\ fsUrls' = fsUrls
    /\ UNCHANGED <<fsPages, fsCleaned>>
    /\ SiteFrame

\* site.ts:419-421: Promise.all over fetchPage, rejected when one of them is
FetchPages ==
    /\ fsPc = "fetch"
    /\ \E oks \in [1..Len(fsUrls) -> BOOLEAN] :
          IF PromiseAll(oks)
          THEN \E t \in PageTitles :
                  \E b \in [1..Len(fsUrls) -> UNION {Bodies(i) : i \in 1..Len(fsUrls)}] :
                     /\ \A i \in 1..Len(fsUrls) : b[i] \in Bodies(i)
                     /\ fsPages' = [i \in 1..Len(fsUrls) |->
                                      fetchPage(fsUrls[i], [title |-> t, body |-> b[i]])]
                     /\ fsPc' = "strip"
                     /\ fsResult' = fsResult
          ELSE /\ fsResult' = <<[ok |-> FALSE, error |-> "fetch failed", fetched |-> oks]>>
               /\ fsPc' = "failed"
               /\ fsPages' = fsPages
    /\ UNCHANGED <<fsUrls, fsCleaned>>
    /\ SiteFrame

\* site.ts:423-424
Strip ==
    /\ fsPc = "strip"
    /\ fsCleaned' = stripCommonText(fsPages)
    /\ fsPc' = "filter"
    /\ UNCHANGED <<fsUrls, fsPages, fsResult>>
    /\ SiteFrame

\* site.ts:426-441
Filter ==
    /\ fsPc = "filter"
    /\ fsResult' = <<[ok |-> TRUE,
                      site |-> fetchSiteBuild(getRootUrl(fsEnv.url), fsPages, fsCleaned)]>>
    /\ fsPc' = "done"
    /\ UNCHANGED <<fsUrls, fsPages, fsCleaned>>
    /\ SiteFrame

NextSite == Sitemap \/ Crawl \/ FetchPages \/ Strip \/ Filter

SpecSite == InitSite /\ [][NextSite]_vars

-----------------------------------------------------------------------------
(* SpecFind: articles written one after the other by saveArticle, then a    *)
(* call of findByUrl that walks the directory in the order of readdir.      *)

MaxWrites == 3
MaxDays == 2

FindTitles == {<<"Foo">>, <<"Bar">>}
FindUrls == {PageUrl, PageUrl \o <<"/">>, <<"https://", "ex.com", "/", "b">>}

\* the orders in which a directory can be listed
Listings(dir) ==
    {l \in [1..Cardinality(DOMAIN dir) -> DOMAIN dir] :
        \A i, j \in 1..Cardinality(DOMAIN dir) : i # j => l[i] # l[j]}

\* storage.ts:38-44: the test of one file
MatchesUrl(text, url) ==
    UrlLine(text) # <<>> /\ normalizeUrl(UrlLine(text)) = normalizeUrl(url)

\* storage.ts:31-50 over the files as listed: the first one that matches
findByUrlIn(url, listing, dir) ==
    LET hits == {i \in 1..Len(listing) : MatchesUrl(dir[listing[i]].text, url)}
    IN  IF hits = {} THEN <<>> ELSE <<listing[SetMin(hits)]>>

InitFind ==
    /\ fbDir = <<>> /\ fbDay = 1 /\ fbClock = 0 /\ fbFound = <<>>
    /\ UrlIdle /\ ChunkIdle /\ TrackIdle /\ CapIdle /\ StripIdle /\ RunIdle
    /\ SiteIdle /\ DiscussIdle /\ RaceIdle /\ MoreIdle

FindFrame == UNCHANGED <<baseVars, siteVars, discussVars, raceVars, moreVars>>

\* the clock passes midnight
NextDay ==
    /\ fbFound = <<>>
    /\ fbDay < MaxDays
    /\ fbDay' = fbDay + 1
    /\ UNCHANGED <<fbDir, fbClock, fbFound>>
    /\ FindFrame

\* storage.ts:88-96 with the slug of run.ts:124
WriteArticle ==
    /\ fbFound = <<>>
    /\ fbClock < MaxWrites
    /\ \E title \in FindTitles, url \in FindUrls :
          LET slug == generateSlug(title, fbDay)
              meta == [title |-> title, url |-> url, type |-> "web", words |-> 2]
          IN  fbDir' = Put(fbDir, slug,
                           [text |-> FileText(meta, <<"alpha", " ", "beta">>, fbDay),
                            created |-> fbClock + 1])
    /\ fbClock' = fbClock + 1
    /\ UNCHANGED <<fbDay, fbFound>>
    /\ FindFrame

\* storage.ts:30-51
CallFindByUrl ==
    /\ fbFound = <<>>
    /\ \E url \in FindUrls, listing \in Listings(fbDir) :
          fbFound' = <<[url |-> url, listing |-> listing,
                        slug |-> findByUrlIn(url, listing, fbDir)]>>
    /\ UNCHANGED <<fbDir, fbDay, fbClock>>
    /\ FindFrame

NextFind == NextDay \/ WriteArticle \/ CallFindByUrl

SpecFind == InitFind /\ [][NextFind]_vars

-----------------------------------------------------------------------------
(* SpecDiscuss: runDiscuss (run.ts) over a storage that summarize runs      *)
(* filled before it.                                                        *)

MaxStored == 2

\* getLatestSlug with the sort "a.mtime - b.mtime"
getOldestSlug(sums) ==
    {slug \in DOMAIN sums : \A other \in DOMAIN sums : sums[other] >= sums[slug]}

\* storage.ts:114-131: the name with the greatest mtime; the sort is stable,
\* so among equal mtimes the first in readdir order, any of them here
getLatestSlug(sums) ==
    {slug \in DOMAIN sums : \A other \in DOMAIN sums : sums[other] <= sums[slug]}

DiscussUrls ==
    {PageUrl \o <<"/">>, <<"https://", "ex.com", "/", "b">>,
     HtmlPrefix \o generateSlug(<<"Foo">>, 1) \o <<".html">>}

DiscussArgs ==
    [slug : {<<>>, <<generateSlug(<<"Bar">>, 1)>>},
     url : {<<>>} \cup DiscussUrls,
     forceNew : BOOLEAN]

InitDiscuss ==
    /\ fbDir = <<>> /\ fbDay = 1 /\ fbClock = 0 /\ fbFound = <<>>
    /\ rdSums = <<>> /\ rdPc = "idle" /\ rdArgs = <<>> /\ rdTarget = <<>>
    /\ rdCalls = <<>> /\ rdError = ""
    /\ UrlIdle /\ ChunkIdle /\ TrackIdle /\ CapIdle /\ StripIdle /\ RunIdle
    /\ SiteIdle /\ RaceIdle /\ MoreIdle

DiscussFrame == UNCHANGED <<baseVars, siteVars, raceVars, moreVars, fbDay, fbFound>>

\* run.ts:124-129: a summarize run stores an article and then its summary;
\* a run whose second write fails leaves the article alone
Persist ==
    /\ rdPc = "idle"
    /\ fbClock < MaxStored
    /\ \E title \in FindTitles, url \in {PageUrl, <<"https://", "ex.com", "/", "b">>},
          both \in BOOLEAN :
          LET slug == generateSlug(title, fbDay)
              meta == [title |-> title, url |-> url, type |-> "web", words |-> 2]
          IN  /\ fbDir' = Put(fbDir, slug,
                              [text |-> FileText(meta, <<"alpha", " ", "beta">>, fbDay),
                               created |-> fbClock + 1])
              /\ rdSums' = IF both THEN Put(rdSums, slug, fbClock + 1) ELSE rdSums
    /\ fbClock' = fbClock + 1
    /\ UNCHANGED <<rdPc, rdArgs, rdTarget, rdCalls, rdError>>
    /\ DiscussFrame

DiscussThrow(msg) == rdPc' = "failed" /\ rdError' = msg

\* run.ts:268-270
BeginDiscuss ==
    /\ rdPc = "idle"
    /\ \E args \in DiscussArgs :
          /\ rdArgs' = args
          /\ rdTarget' = args.slug
          /\ rdPc' = IF args.slug = <<>> /\ args.url # <<>> THEN "byUrl" ELSE "latest"
    /\ UNCHANGED <<fbDir, fbClock, rdSums, rdCalls, rdError>>
    /\ DiscussFrame

\* run.ts:270-275
DiscussByUrl ==
    /\ rdPc = "byUrl"
    /\ LET sourceUrl == resolveSourceUrl(rdArgs.url, [s \in DOMAIN fbDir |-> fbDir[s].text])
           url == IF sourceUrl # <<>> THEN sourceUrl ELSE rdArgs.url
       IN  \E listing \in Listings(fbDir) :
              LET found == findByUrlIn(url, listing, fbDir)
              IN  /\ rdTarget' = found
                  /\ IF found = <<>>
                     THEN DiscussThrow("This page hasn't been summarized yet")
                     ELSE rdPc' = "latest" /\ rdError' = rdError
    /\ rdCalls' = rdCalls \o <<<<"resolveSourceUrl", rdArgs.url>>, <<"findByUrl">>>>
    /\ UNCHANGED <<fbDir, fbClock, rdSums, rdArgs>>
    /\ DiscussFrame

\* run.ts:276-279
DiscussLatest ==
    /\ rdPc = "latest"
    /\ IF rdTarget # <<>>
       THEN rdTarget' = rdTarget /\ rdCalls' = rdCalls /\ rdPc' = "open"
            /\ rdError' = rdError
       ELSE /\ rdCalls' = Append(rdCalls, <<"getLatestSlug">>)
            /\ IF getLatestSlug(rdSums) = {}
               THEN rdTarget' = rdTarget /\ DiscussThrow("No summaries yet")
               ELSE \E slug \in getLatestSlug(rdSums) :
                       rdTarget' = <<slug>> /\ rdPc' = "open" /\ rdError' = rdError
    /\ UNCHANGED <<fbDir, fbClock, rdSums, rdArgs>>
    /\ DiscussFrame

\* run.ts:280 and tmux.ts:61-90: the session opens, or a window of that name
\* is open already
OpenDiscussion ==
    /\ rdPc = "open"
    /\ rdCalls' = Append(rdCalls, <<"openDiscussion", rdTarget[1], rdArgs.forceNew>>)
    /\ \/ rdPc' = "done" /\ rdError' = rdError
       \/ DiscussThrow("Discussion already open in tmux")
    /\ UNCHANGED <<fbDir, fbClock, rdSums, rdArgs, rdTarget>>
    /\ DiscussFrame

NextDiscuss == Persist \/ BeginDiscuss \/ DiscussByUrl \/ DiscussLatest \/ OpenDiscussion

SpecDiscuss == InitDiscuss /\ [][NextDiscuss]_vars

-----------------------------------------------------------------------------
(* SpecRace: summarize (summarize.ts): sdkCall() reads the messages of the  *)
(* query until a result, raced against a timer of TIMEOUT_MS.               *)

\* summarize.ts:3
TIMEOUT_MS == 120000

\* the clock moves in steps of TickMs, up to MaxTicks of them
TickMs == 40000
MaxTicks == 5

\* the messages before the result that one query can stream
MaxMessages == 2

\* what the query can deliver after the messages that are not results
QueryResults ==
    {[type |-> "result", subtype |-> "success", result |-> <<"S1">>],
     [type |-> "result", subtype |-> "success", result |-> <<"S2">>],
     [type |-> "result", subtype |-> "error", errors |-> "max turns"]}

\* summarize.ts:153
TimeoutError ==
    [ok |-> FALSE,
     error |-> "Summarization timed out after " \o ToString(TIMEOUT_MS) \o "ms"]

\* summarize.ts:136-144: what sdkCall makes of a result message
sdkResult(message) ==
    IF message.subtype = "success" THEN [ok |-> TRUE, value |-> message.result]
    ELSE [ok |-> FALSE, error |-> "Claude SDK error: " \o message.errors]

\* summarize.ts:147: the stream ended without a result
NoResultError == [ok |-> FALSE, error |-> "Claude SDK returned no result"]

\* Promise.race settles the way of the first promise that settles
raceLast(outcome, settled) == <<settled>>

\* summarize.ts:158-159: a promise settles once
race(outcome, settled) == IF outcome # <<>> THEN outcome ELSE <<settled>>

InitRace ==
    /\ smClears \in BOOLEAN
    /\ smNow = 0 /\ smOracle = <<>> /\ smRead = <<>> /\ smTimer = "armed"
    /\ smOutcome = <<>> /\ smOrder = <<>>
    /\ UrlIdle /\ ChunkIdle /\ TrackIdle /\ CapIdle /\ StripIdle /\ RunIdle
    /\ SiteIdle /\ FindIdle /\ DiscussIdle /\ MoreIdle

RaceFrame == UNCHANGED <<smClears, baseVars, siteVars, findVars, discussVars,
                         moreVars>>

Tick ==
    /\ smNow < MaxTicks * TickMs
    /\ smNow' = smNow + TickMs
    /\ UNCHANGED <<smOracle, smRead, smTimer, smOutcome, smOrder>>
    /\ RaceFrame

\* summarize.ts:124-135, 146: a message that is not a result is passed over
OracleMessage ==
    /\ smOracle = <<>>
    /\ Len(smRead) < MaxMessages
    /\ smRead' = Append(smRead, "assistant")
    /\ UNCHANGED <<smNow, smOracle, smTimer, smOutcome, smOrder>>
    /\ RaceFrame

\* the promise of sdkCall() settled: the race takes it if it is the first,
\* and the finally block runs when the race settles (summarize.ts:158-162)
OracleSettles(settled) ==
    /\ smOracle' = <<settled>>
    /\ smOutcome' = race(smOutcome, settled)
    /\ smOrder' = Append(smOrder, "oracle")
    /\ smTimer' = IF smOutcome = <<>> /\ smClears /\ smTimer = "armed"
                  THEN "cleared" ELSE smTimer

\* summarize.ts:136-145: the result message ends sdkCall
OracleResult ==
    /\ smOracle = <<>>
    /\ \E message \in QueryResults :
          /\ smRead' = Append(smRead, message.type)
          /\ OracleSettles(sdkResult(message))
    /\ UNCHANGED smNow
    /\ RaceFrame

\* summarize.ts:147: the stream ends without a result
OracleEnds ==
    /\ smOracle = <<>>
    /\ OracleSettles(NoResultError)
    /\ UNCHANGED <<smNow, smRead>>
    /\ RaceFrame

\* summarize.ts:151-156: the callback of setTimeout rejects timeoutPromise
TimerFires ==
    /\ smTimer = "armed"
    /\ smNow >= TIMEOUT_MS
    /\ smTimer' = "fired"
    /\ smOutcome' = race(smOutcome, TimeoutError)
    /\ smOrder' = Append(smOrder, "timer")
    /\ UNCHANGED <<smNow, smOracle, smRead>>
    /\ RaceFrame

NextRace == Tick \/ OracleMessage \/ OracleResult \/ OracleEnds \/ TimerFires

SpecRace == InitRace /\ [][NextRace]_vars

-----------------------------------------------------------------------------
(* The map-reduce branch of runSummarizeSite (SpecReduce)                    *)
(*                                                                           *)
(* run.ts:191-224, for a site above MAX_SITE_WORDS: the chunk calls are      *)
(* started together, they return in any order, and the merge call follows   *)
(* the await of Promise.all.                                                 *)

MaxReducePages == 3

ReduceRoot == <<"https://", "ex.com">>
ReduceTitle == <<"Foo">>
ReduceSummaries == {<<"S1">>, <<"S2">>}
ReduceSites ==
    {pages \in UNION {{CleanedPages(ReduceRoot, ReduceTitle, ws) :
                           ws \in [1..n -> SiteWordChoices]} : n \in 2..MaxReducePages} :
        totalWordsOf(pages) > MAX_SITE_WORDS}

\* the values in the order in which the promises settled
PromiseAllInReturnOrder(settled) == [k \in 1..Len(settled) |-> settled[k][2]]

\* run.ts:197: the array Promise.all resolves with holds the value of the
\* i-th promise at index i, whatever the order in which they settled
PromiseAllValues(settled) ==
    [i \in 1..Len(settled) |->
        settled[CHOOSE k \in 1..Len(settled) : settled[k][1] = i][2]]

ReduceCall(content, type) ==
    [content |-> content, title |-> ReduceTitle, url |-> ReduceRoot, type |-> type]

InitReduce ==
    /\ mrPc = "chunks" /\ mrChunks = <<>> /\ mrSettled = <<>> /\ mrCalls = <<>>
    /\ mrSummary = <<>> /\ mrError = ""
    /\ UrlIdle /\ ChunkIdle /\ TrackIdle /\ CapIdle /\ StripIdle /\ RunIdle
    /\ SiteIdle /\ FindIdle /\ DiscussIdle /\ RaceIdle /\ TabIdle

ReduceFrame ==
    UNCHANGED <<baseVars, siteVars, findVars, discussVars, raceVars, tabVars>>

\* run.ts:193-208: chunkPages, then chunks.map starts one summarize call for
\* each chunk before any of them is awaited
MapChunks ==
    /\ mrPc = "chunks"
    /\ \E pages \in ReduceSites :
          LET chunks == chunkPages(pages, MAX_SITE_WORDS)
          IN  /\ mrChunks' = chunks
              /\ mrCalls' = [i \in 1..Len(chunks) |->
                                ReduceCall(SiteContent(chunks[i]), "site")]
    /\ mrPc' = "awaitChunks"
    /\ UNCHANGED <<mrSettled, mrSummary, mrError>>
    /\ ReduceFrame

Returned(settled) == {settled[k][1] : k \in 1..Len(settled)}

\* run.ts:204-210: the call of one chunk returns its summary
ChunkResolves ==
    /\ mrPc = "awaitChunks"
    /\ \E i \in (1..Len(mrChunks)) \ Returned(mrSettled), s \in ReduceSummaries :
          mrSettled' = Append(mrSettled, <<i, s>>)
    /\ UNCHANGED <<mrPc, mrChunks, mrCalls, mrSummary, mrError>>
    /\ ReduceFrame

\* run.ts:197 and 204: the call of one chunk rejects, Promise.all rejects
\* and the await throws
ChunkRejects ==
    /\ mrPc = "awaitChunks"
    /\ (1..Len(mrChunks)) \ Returned(mrSettled) # {}
    /\ mrPc' = "failed" /\ mrError' = "SDK error"
    /\ UNCHANGED <<mrChunks, mrSettled, mrCalls, mrSummary>>
    /\ ReduceFrame

\* run.ts:197 and 213-222: Promise.all resolved, the merge call is issued
MergeCall ==
    /\ mrPc = "awaitChunks"
    /\ Returned(mrSettled) = 1..Len(mrChunks)
    /\ mrCalls' = Append(mrCalls,
                         ReduceCall(mergeContent(PromiseAllValues(mrSettled)),
                                    "site-merge"))
    /\ mrPc' = "awaitMerge"
    /\ UNCHANGED <<mrChunks, mrSettled, mrSummary, mrError>>
    /\ ReduceFrame

\* run.ts:218: the merge call returns the summary, or rejects
MergeSettles ==
    /\ mrPc = "awaitMerge"
    /\ \/ \E s \in ReduceSummaries :
            mrSummary' = <<s>> /\ mrPc' = "done" /\ UNCHANGED mrError
       \/ mrPc' = "failed" /\ mrError' = "SDK error" /\ UNCHANGED mrSummary
    /\ UNCHANGED <<mrChunks, mrSettled, mrCalls>>
    /\ ReduceFrame

NextReduce == MapChunks \/ ChunkResolves \/ ChunkRejects \/ MergeCall \/ MergeSettles

SpecReduce == InitReduce /\ [][NextReduce]_vars

-----------------------------------------------------------------------------
(* Page and site runs on one origin (SpecHome)                               *)
(*                                                                           *)
(* The invocations of Spec without redo, with a disk whose writes succeed:   *)
(* runSummarize on the home page of a site and runSummarizeSite from a page  *)
(* of that site.                                                             *)

HomeUrl == <<"https://", "ex.com", "/">>

HomeOpts == [url : {HomeUrl}, title : OptTitles, redo : {FALSE}]
HomeSiteOpts == [url : {PageUrl, HomeUrl}, title : {<<>>}, redo : {FALSE}]

BeginHome == BeginSummarizeWith(HomeOpts)

BeginHomeSite == BeginSummarizeSiteWith(HomeSiteOpts)

NextHome ==
    \/ BeginHome \/ BeginHomeSite
    \/ Extract \/ FetchSite
    \/ Summarize \/ StartChunks \/ ChunkReturns \/ Merge
    \/ SaveArticle \/ SaveSummary \/ SaveHTML

SpecHome == Init /\ [][NextHome]_vars

-----------------------------------------------------------------------------
(* The tab of a web run (SpecTab)                                            *)
(*                                                                           *)
(* run.ts:100-115 with cdp.ts:24-26: the tab list is searched for the        *)
(* requested URL; the tab found is read, or a new tab is opened and read.    *)

MaxTabs == 2

TabTitle == <<"Foo">>
TabUrls ==
    {PageUrl, PageUrl \o <<"#", "top">>, PageUrl \o <<"?", "x=1">>,
     <<"https://", "ex.com", "/">>, <<"https://", "ex.com", "/", "b">>}
TabRequests == {PageUrl, PageUrl \o <<"#", "top">>, <<"https://", "ex.com", "/">>}
OpenTabs ==
    UNION {{[i \in 1..n |-> Tab(i, TabTitle, us[i])] : us \in [1..n -> TabUrls]} :
           n \in 0..MaxTabs}

InitTab ==
    /\ ftTabs \in OpenTabs /\ ftUrl \in TabRequests
    /\ ftFound = <<>> /\ ftOpened = <<>>
    /\ UrlIdle /\ ChunkIdle /\ TrackIdle /\ CapIdle /\ StripIdle /\ RunIdle
    /\ SiteIdle /\ FindIdle /\ DiscussIdle /\ RaceIdle /\ ReduceIdle

TabFrame ==
    UNCHANGED <<ftUrl, baseVars, siteVars, findVars, discussVars, raceVars, reduceVars>>

\* run.ts:103-104: const found = findTabByUrl(tabs, url)
FindTab ==
    /\ ftFound = <<>>
    /\ ftFound' = <<findTabByUrl(ftTabs, ftUrl)>>
    /\ UNCHANGED <<ftTabs, ftOpened>>
    /\ TabFrame

\* run.ts:105-108: the tab found is the one extractText reads
ReadFound ==
    /\ ftFound # <<>> /\ ftFound[1] # <<>> /\ ftOpened = <<>>
    /\ ftOpened' = <<[openUrl |-> <<>>, extractText |-> ftFound[1][1].id]>>
    /\ UNCHANGED <<ftTabs, ftFound>>
    /\ TabFrame

\* run.ts:109-115 with cdp.ts:81-103: no tab found, openUrl opens one at the
\* URL and extractText reads it
OpenAndRead ==
    /\ ftFound # <<>> /\ ftFound[1] = <<>> /\ ftOpened = <<>>
    /\ LET opened == Tab(Len(ftTabs) + 1, TabTitle, ftUrl)
       IN  /\ ftTabs' = Append(ftTabs, opened)
           /\ ftOpened' = <<[openUrl |-> <<ftUrl>>, extractText |-> opened.id]>>
    /\ UNCHANGED ftFound
    /\ TabFrame

NextTab == FindTab \/ ReadFound \/ OpenAndRead

SpecTab == InitTab /\ [][NextTab]_vars

-----------------------------------------------------------------------------
(* runSummarize on video links (SpecVideo)                                   *)
(*                                                                           *)
(* The runSummarize invocations of Spec on the link forms that normalizeUrl  *)
(* knows as videos (storage.ts:13-15), with a disk whose writes succeed.     *)

VideoLinks ==
    {<<"https://", "www.", "youtube.com", "/", "watch", "?", "v=", "AAAAAAAAAAA">>,
     <<"https://", "youtu.be", "/", "AAAAAAAAAAA">>,
     <<"https://", "www.", "youtube.com", "/", "shorts", "/", "AAAAAAAAAAA">>,
     <<"https://", "www.", "youtube.com", "/", "live", "/", "BBBBBBBBBBB">>,
     <<"https://", "www.", "youtube.com", "/", "watch", "?", "list=1", "&", "v=",
       "BBBBBBBBBBB">>}

VideoOpts == [url : VideoLinks, title : {<<>>}, redo : BOOLEAN]

BeginVideo == BeginSummarizeWith(VideoOpts)

NextVideo ==
    \/ BeginVideo
    \/ Extract
    \/ Summarize
    \/ SaveArticle \/ SaveSummary \/ SaveHTML

SpecVideo == Init /\ [][NextVideo]_vars

-----------------------------------------------------------------------------
(* Claims about normalizeUrl (SpecUrl) *)

KeysComputed == nuKeys # <<>>

\* what a reader of a video link takes as its video: the value of the
\* parameter named v of a watch link, the path of a youtu.be link
DenotedVideoId(u) ==
    LET vs == {j \in 2..Len(u) : u[j] = "v=" /\ u[j - 1] \in {"?", "&"}}
    IN  IF \E i \in 1..Len(u) : u[i] = "youtu.be"
        THEN u[FirstIndex(u, "youtu.be", 1) + 2]
        ELSE u[SetMin(vs) + 1]

BothVideo == nuUrls[1] \in VideoUrls /\ nuUrls[2] \in VideoUrls

\* C3: two video URLs (watch or youtu.be shape, any extra parameters) get the
\* same key exactly when they denote the same video id.
C3_SameVideoSameKey ==
    (KeysComputed /\ BothVideo) =>
        ((DenotedVideoId(nuUrls[1]) = DenotedVideoId(nuUrls[2]))
            <=> (nuKeys[1] = nuKeys[2]))

\* a web URL: http(s), a host, and no video pattern in it
IsWebUrl(u) ==
    /\ Len(u) >= 2
    /\ u[1] \in {"https://", "http://"}
    /\ u[2] \in HostTokens
    /\ ytMatch(u) = NoMatch

BothWeb == IsWebUrl(nuUrls[1]) /\ IsWebUrl(nuUrls[2])

\* what follows the host, up to the fragment
Body(u) == SubSeq(u, 3, FirstIndex(u, "#", 1) - 1)

Fragment(u) == Tail0(u, FirstIndex(u, "#", 1))

OneSlashMore(a, b) == Body(a) = Body(b) \o <<"/">>

DifferOnlyBySlashOrFragment(a, b) ==
    /\ a[1] = b[1]
    /\ a[2] = b[2]
    /\ (Body(a) = Body(b) \/ OneSlashMore(a, b) \/ OneSlashMore(b, a))

\* the body as the URL parser reads it: an empty path is "/"
CanonBody(u) ==
    IF Body(u) = <<>> \/ Head(Body(u)) = "?" THEN <<"/">> \o Body(u) ELSE Body(u)

UpToOneSlash(x, y) == x = y \/ x = y \o <<"/">> \/ y = x \o <<"/">>

\* C4 as stated: web URLs that differ only by one trailing slash and/or the
\* fragment get the same key; web URLs that differ in scheme, host, path or
\* query (hosts compared without case, a trailing slash aside) get different
\* keys.
C4_AsStated ==
    (KeysComputed /\ BothWeb) =>
        /\ DifferOnlyBySlashOrFragment(nuUrls[1], nuUrls[2])
               => nuKeys[1] = nuKeys[2]
        /\ (\/ nuUrls[1][1] # nuUrls[2][1]
            \/ LowerToken(nuUrls[1][2]) # LowerToken(nuUrls[2][2])
            \/ ~UpToOneSlash(CanonBody(nuUrls[1]), CanonBody(nuUrls[2])))
               => nuKeys[1] # nuKeys[2]

\* the extra slash is the only one: the shorter URL does not end in "/"
OneSlashMoreOnly(a, b) == OneSlashMore(a, b) /\ ~EndsWith(Body(b), <<"/">>)

\* the serialized body: an empty path reads "/"; one trailing slash dropped
SerializedBody(u) ==
    LET b == CanonBody(u)
    IN  IF EndsWith(b, <<"/">>) THEN SubSeq(b, 1, Len(b) - 1) ELSE b

\* C4 amended: web URLs that differ only by the fragment and/or by one
\* trailing slash added to a URL that does not already end in one get the
\* same key; web URLs whose scheme, lower-cased host or serialized path and
\* query (one trailing slash aside) differ get different keys.
C4_SlashFragmentSameKey ==
    (KeysComputed /\ BothWeb) =>
        /\ (/\ nuUrls[1][1] = nuUrls[2][1]
            /\ nuUrls[1][2] = nuUrls[2][2]
            /\ \/ Body(nuUrls[1]) = Body(nuUrls[2])
               \/ OneSlashMoreOnly(nuUrls[1], nuUrls[2])
               \/ OneSlashMoreOnly(nuUrls[2], nuUrls[1]))
           => nuKeys[1] = nuKeys[2]
        /\ (\/ nuUrls[1][1] # nuUrls[2][1]
            \/ LowerToken(nuUrls[1][2]) # LowerToken(nuUrls[2][2])
            \/ SerializedBody(nuUrls[1]) # SerializedBody(nuUrls[2]))
           => nuKeys[1] # nuKeys[2]

\* a URL and the same URL with a slash added and another fragment: one key
C4_Witness ==
    /\ KeysComputed
    /\ BothWeb
    /\ nuUrls[1][1] = nuUrls[2][1]
    /\ nuUrls[1][2] = nuUrls[2][2]
    /\ OneSlashMoreOnly(nuUrls[1], nuUrls[2])
    /\ Body(nuUrls[2]) # <<>>
    /\ Fragment(nuUrls[1]) # Fragment(nuUrls[2])
    /\ nuKeys[1] = nuKeys[2]

-----------------------------------------------------------------------------
(* Claims about chunkPages (SpecChunk) *)

Chunked == cpChunks # <<>>

RECURSIVE SumWords(_)
SumWords(ps) == IF ps = <<>> THEN 0 ELSE Head(ps).words + SumWords(Tail(ps))

\* C5: the chunks are non-empty and their concatenation, in order, is the
\* page list: each page in exactly one chunk, once, in its original order.
C5_ChunksPartitionPages ==
    Chunked =>
        /\ Flatten(cpChunks[1]) = cpPages
        /\ \A i \in 1..Len(cpChunks[1]) : Len(cpChunks[1][i]) >= 1

\* several pages, one of them alone over the budget, split into several chunks
C5_Witness ==
    /\ Chunked
    /\ Len(cpPages) >= 3
    /\ Len(cpChunks[1]) >= 2
    /\ \E i \in 1..Len(cpPages) : cpPages[i].words > cpMaxWords
    /\ \E i \in 1..Len(cpChunks[1]) : Len(cpChunks[1][i]) >= 2

-----------------------------------------------------------------------------
(* Claims about selectBestTrack (SpecTrack) *)

Selected == stBest # <<>>

\* the classes of the claim, best first
IsEnglish(t) == t.languageCode[1] = "en"

TrackClass(t) ==
    IF t.kind # "asr" THEN (IF IsEnglish(t) THEN 1 ELSE 2)
    ELSE (IF IsEnglish(t) THEN 3 ELSE 4)

BestClass(tracks) == SetMin({TrackClass(tracks[i]) : i \in 1..Len(tracks)})

FirstOfClass(tracks, c) ==
    tracks[SetMin({i \in 1..Len(tracks) : TrackClass(tracks[i]) = c})]

\* C8: the selected track is a track of the list, of the best class present
\* (manual English, manual other, auto English, auto other), and the first
\* of that class in list order.
C8_BestTrackFirstOfBestClass ==
    Selected => stBest[1] = FirstOfClass(stTracks, BestClass(stTracks))

\* an auto-generated English track listed first, a manual non-English one
\* second and another manual one third: the second is selected
C8_Witness ==
    /\ Selected
    /\ Len(stTracks) >= 3
    /\ TrackClass(stTracks[1]) = 3
    /\ TrackClass(stTracks[2]) = 2
    /\ TrackClass(stTracks[3]) = 2
    /\ stBest[1] = stTracks[2]

-----------------------------------------------------------------------------
(* Claims about fetchCaptions (SpecCaptions) *)

CaptionsSettled == fcResult # <<>>

\* a text without the whitespace at its two ends
Stripped(s) ==
    LET solid == {i \in 1..Len(s) : ~IsWs(s[i])}
    IN  IF solid = {} THEN <<>> ELSE SubSeq(s, SetMin(solid), SetMax(solid))

\* the number of whitespace-separated words of a text
WordCount(s) ==
    Cardinality({i \in 1..Len(s) : ~IsWs(s[i]) /\ (i = 1 \/ IsWs(s[i - 1]))})

\* a text with every run of whitespace written as one space
RECURSIVE OneSpaced(_, _)
OneSpaced(s, i) ==
    IF i > Len(s) THEN <<>>
    ELSE IF ~IsWs(s[i]) THEN <<s[i]>> \o OneSpaced(s, i + 1)
    ELSE IF i = 1 \/ ~IsWs(s[i - 1]) THEN <<" ">> \o OneSpaced(s, i + 1)
    ELSE OneSpaced(s, i + 1)

\* the caption segments a body holds, in order
SegmentsOf(body) ==
    IF body.kind = "json"
    THEN [i \in 1..Len(body.events) |-> Stripped(Flatten(body.events[i].segs))]
    ELSE IF body.kind = "xml"
    THEN [i \in 1..Len(body.texts) |->
             Stripped(OneSpaced(decodeEntities(body.texts[i]), 1))]
    ELSE <<>>

NonEmptySegments(body) == SelectSeq(SegmentsOf(body), LAMBDA x : x # <<>>)

\* the body the transcript is read from: the structured one unless it holds
\* no segment
UsedSegments ==
    IF NonEmptySegments(fcEnv.capBody) # <<>> THEN NonEmptySegments(fcEnv.capBody)
    ELSE NonEmptySegments(fcEnv.xmlBody)

HelloWorldBody ==
    [kind |-> "json", events |-> <<[segs |-> <<<<"hello">>>>], [segs |-> <<<<"world">>>>]>>]

\* C9: the transcript is the newline-join of the non-empty caption segments
\* in order, segments is their number and words is the number of
\* whitespace-separated words of the transcript; auto-generated English
\* captions "hello", "world" give "hello\nworld" and 2 words.
C9_TranscriptJoinsSegments ==
    CaptionsSettled =>
        /\ fcResult[1].ok =>
              /\ fcResult[1].transcript = JoinWith(UsedSegments, "\n")
              /\ fcResult[1].segments = Len(UsedSegments)
              /\ fcResult[1].words = WordCount(fcResult[1].transcript)
        /\ (/\ fcEnv.html.apiKey
            /\ fcEnv.status = "OK"
            /\ fcEnv.captionTracks = AutoEnglishOnly
            /\ fcEnv.capBody = HelloWorldBody)
           => /\ fcResult[1].ok
              /\ fcResult[1].transcript = <<"hello", "\n", "world">>
              /\ fcResult[1].segments = 2
              /\ fcResult[1].words = 2

\* the scenario of the claim, and a body whose blank segment is left out
C9_Witness ==
    /\ CaptionsSettled
    /\ fcEnv.captionTracks = AutoEnglishOnly
    /\ fcEnv.capBody = HelloWorldBody
    /\ fcResult[1].ok
    /\ fcResult[1].transcript = <<"hello", "\n", "world">>

C9_WitnessBlankDropped ==
    /\ CaptionsSettled
    /\ fcEnv.capBody.kind = "json"
    /\ Len(fcEnv.capBody.events) = 2
    /\ fcEnv.capBody.events[1] = [segs |-> <<<<"\n">>>>]
    /\ fcResult[1].ok
    /\ fcResult[1].segments = 1

\* fetchCaptions came to its caption track
TrackRead ==
    /\ CaptionsSettled
    /\ fcEnv.html.apiKey /\ fcEnv.status = "OK" /\ fcEnv.captionTracks # <<>>

\* the requests for caption content, in order
ContentFetches == SelectSeq(fcFetches, LAMBDA f : f.to \in {"json3", "raw"})

\* the segments a body yields read as JSON when it is JSON and as XML when
\* it is not, and read as XML
SegmentsOfStructured(body) ==
    IF body.kind = "json" THEN parseJson3Events(body.events)
    ELSE IF body.kind = "xml" THEN parseXmlTexts(body.texts) ELSE <<>>
SegmentsOfRaw(body) == IF body.kind = "xml" THEN parseXmlTexts(body.texts) ELSE <<>>

\* the order of the reads, the raw track being fetched again when refetch
\* holds: one structured fetch, then at most one raw fetch of the same
\* track, and the empty-captions error exactly when no body that was read
\* yielded a segment
ReadsInOrder(refetch) ==
    TrackRead =>
        LET track == selectBestTrack(fcEnv.captionTracks)
            first == SegmentsOfStructured(fcEnv.capBody)
            second == IF refetch THEN SegmentsOfRaw(fcEnv.xmlBody) ELSE <<>>
        IN  /\ ContentFetches =
                  <<[to |-> "json3", baseUrl |-> track.baseUrl]>>
                  \o (IF refetch THEN <<[to |-> "raw", baseUrl |-> track.baseUrl]>>
                      ELSE <<>>)
            /\ Len(ContentFetches) <= 2
            /\ fcResult[1].ok <=> (first # <<>> \/ second # <<>>)
            /\ fcResult[1].ok =>
                  fcResult[1].segments = Len(IF first # <<>> THEN first ELSE second)
            /\ ~fcResult[1].ok =>
                  fcResult[1].error = "Caption tracks found but content was empty"

\* C28 as it is stated: the raw track URL is fetched again only when the
\* structured fetch returned an empty body
C28_AsStated == ReadsInOrder(fcEnv.capBody.kind = "empty")

\* C28: the structured form is fetched once and its body is read as JSON,
\* or as XML when it is not JSON; the raw track URL is fetched again, and
\* read as XML, exactly when that body yielded no segment, be it empty or
\* not; there are at most two caption-content fetches, and the
\* empty-captions error is thrown exactly when no body read yielded a segment
C28_RefetchWhenNoSegment == ReadsInOrder(SegmentsOfStructured(fcEnv.capBody) = <<>>)

\* a JSON body with one blank event: the raw track is fetched and its XML
\* gives the transcript
C28_Witness ==
    /\ TrackRead
    /\ fcEnv.capBody.kind = "json" /\ fcEnv.capBody.events = <<[segs |-> <<<<"\n">>>>]>>
    /\ Len(ContentFetches) = 2 /\ ContentFetches[2].to = "raw"
    /\ fcResult[1].ok /\ fcResult[1].segments = 1

\* a body that is not JSON and is read as XML: no second fetch
C28_WitnessSameBodyAsXml ==
    /\ TrackRead
    /\ fcEnv.capBody.kind = "xml" /\ fcEnv.xmlBody.kind = "xml"
    /\ Len(ContentFetches) = 1
    /\ fcResult[1].ok

-----------------------------------------------------------------------------
(* Claims about stripCommonText (SpecStrip) *)

Stripped3 == scResult # <<>>

ContainsPhrase(content, phrase) ==
    \E i \in 1..Len(content) : StartsWith(Tail0(content, i), phrase)

\* C10: with fewer than 3 pages stripCommonText returns the pages as they
\* are: content, word count and order, whatever the pages share.
C10_FewPagesUnchanged ==
    (Stripped3 /\ Len(scPages) < 3) => scResult[1] = scPages

\* two pages that share an eight-word phrase, returned as they are
C10_Witness ==
    /\ Stripped3
    /\ Len(scPages) = 2
    /\ scPages[1].content # scPages[2].content
    /\ ContainsPhrase(scPages[1].content, SharedPhrase)
    /\ ContainsPhrase(scPages[2].content, SharedPhrase)
    /\ scResult[1] = scPages

\* C11: after stripCommonText over 3 or more pages, no window that was
\* classified as boilerplate occurs in the content of any returned page.
C11_NoBoilerplateLeft ==
    (Stripped3 /\ Len(scPages) >= 3) =>
        LET chunks == CommonChunks(scPages)
        IN  \A i \in 1..Len(scPages), j \in 1..Len(chunks) :
               ~ContainsPhrase(scResult[1][i].content, chunks[j])

-----------------------------------------------------------------------------
(* Claims about fetchSite (SpecSite) *)

SiteReturned == fsPc = "done" /\ fsResult # <<>> /\ fsResult[1].ok

WordsIn(content) == Len(SplitWs(content))

\* the positions of the discovered pages that have more than 20 words left
\* after the stripping
Survivors == {i \in 1..Len(fsCleaned) : WordsIn(fsCleaned[i].content) > 20}

\* the k-th position of a set of positions, in increasing order
NthOf(S, k) == CHOOSE i \in S : Cardinality({j \in S : j <= i}) = k

RECURSIVE SumWordsIn(_)
SumWordsIn(pages) ==
    IF pages = <<>> THEN 0 ELSE WordsIn(Head(pages).content) + SumWordsIn(Tail(pages))

\* C12: every page fetchSite returns has more than 20 words after the
\* stripping, the returned pages are exactly the discovered pages with more
\* than 20 words left, in the order of discovery, and totalWords is the sum
\* of the word counts of the returned pages.
C12_SurvivorsInOrder ==
    SiteReturned =>
        LET site == fsResult[1].site
        IN  /\ \A k \in 1..Len(site.pages) :
                  /\ site.pages[k].words > 20
                  /\ WordsIn(site.pages[k].content) > 20
            /\ Len(site.pages) = Cardinality(Survivors)
            /\ \A k \in 1..Len(site.pages) :
                  /\ site.pages[k] = fsCleaned[NthOf(Survivors, k)]
                  /\ site.pages[k].url = fsUrls[NthOf(Survivors, k)]
            /\ site.totalWords = SumWordsIn(site.pages)

\* three pages were discovered, the stripping left the second one with 20
\* words, and the first and the third were returned
C12_Witness ==
    /\ SiteReturned
    /\ Len(fsUrls) = 3
    /\ fsPages[2].words > 20
    /\ fsCleaned[2].words = 20
    /\ Len(fsResult[1].site.pages) = 2
    /\ fsResult[1].site.pages[2].url = fsUrls[3]
    /\ fsResult[1].site.totalWords = 42

-----------------------------------------------------------------------------
(* Claims about findByUrl (SpecFind) *)

\* the stored articles with the canonical key of url
SameKey(url) == {slug \in DOMAIN fbDir : MatchesUrl(fbDir[slug].text, url)}

\* C13: when several stored articles have the canonical key of the url,
\* findByUrl returns the slug of the one created last.
C13_LatestDuplicateFound ==
    (fbFound # <<>> /\ Cardinality(SameKey(fbFound[1].url)) >= 2) =>
        /\ fbFound[1].slug # <<>>
        /\ \A other \in SameKey(fbFound[1].url) :
              fbDir[other].created <= fbDir[fbFound[1].slug[1]].created

-----------------------------------------------------------------------------
(* Claims about runDiscuss (SpecDiscuss) *)

DiscussSettled == rdPc \in {"done", "failed"}

\* the calls of the discussion collaborator
OpenCalls == SelectSeq(rdCalls, LAMBDA c : c[1] = "openDiscussion")

\* the slugs the lookup by URL can yield for the URL runDiscuss was given
ByUrlSlugs ==
    IF rdArgs.url = <<>> THEN {}
    ELSE LET sourceUrl == resolveSourceUrl(rdArgs.url,
                                           [s \in DOMAIN fbDir |-> fbDir[s].text])
         IN  SameKey(IF sourceUrl # <<>> THEN sourceUrl ELSE rdArgs.url)

\* the stored summaries that no other stored summary is newer than
NewestSummaries ==
    {slug \in DOMAIN rdSums : ~\E other \in DOMAIN rdSums : rdSums[other] > rdSums[slug]}

\* the first of the three sources that yields a slug
FirstYield ==
    IF rdArgs.slug # <<>> THEN {rdArgs.slug[1]}
    ELSE IF ByUrlSlugs # {} THEN ByUrlSlugs
    ELSE NewestSummaries

\* the code's order: a URL that was given decides alone
CodeYield ==
    IF rdArgs.slug # <<>> THEN {rdArgs.slug[1]}
    ELSE IF rdArgs.url # <<>> THEN ByUrlSlugs
    ELSE NewestSummaries

NoExtractionNoOracle ==
    \A i \in 1..Len(rdCalls) :
        rdCalls[i][1] \in {"resolveSourceUrl", "findByUrl", "getLatestSlug", "openDiscussion"}

OpenedOnceWith(slugs) ==
    /\ Len(OpenCalls) = 1
    /\ OpenCalls[1][2] \in slugs
    /\ OpenCalls[1][3] = rdArgs.forceNew
    /\ rdCalls[Len(rdCalls)] = OpenCalls[1]

\* C16 as stated: runDiscuss takes the slug of the first of explicit slug,
\* lookup by URL, latest summary that yields one, opens the discussion once
\* with it, and fails without opening only when none of the three yields one.
C16_AsStated ==
    DiscussSettled =>
        /\ NoExtractionNoOracle
        /\ IF FirstYield = {}
           THEN rdPc = "failed" /\ Len(OpenCalls) = 0
           ELSE OpenedOnceWith(FirstYield)

\* C16 amended: the explicit slug is taken when given; else, when a URL is
\* given, the lookup by URL decides alone and its miss fails the call with
\* "This page hasn't been summarized yet" without asking for the latest
\* summary; else the latest summary is taken, and its absence fails the call
\* with "No summaries yet".  The discussion is opened exactly once, as the
\* last call, with that slug and the given forceNew, and never when the call
\* failed before it.
C16_UrlDecidesAlone ==
    DiscussSettled =>
        /\ NoExtractionNoOracle
        /\ IF CodeYield = {}
           THEN /\ rdPc = "failed" /\ Len(OpenCalls) = 0
                /\ rdError = IF rdArgs.url # <<>>
                             THEN "This page hasn't been summarized yet"
                             ELSE "No summaries yet"
                /\ (rdArgs.url # <<>> =>
                       \A i \in 1..Len(rdCalls) : rdCalls[i][1] # "getLatestSlug")
           ELSE OpenedOnceWith(CodeYield)

\* a URL that no stored article has was given while two summaries are stored:
\* the call failed, the latest summary was not asked for
C16_Witness ==
    /\ rdPc = "failed"
    /\ rdArgs.slug = <<>> /\ rdArgs.url # <<>>
    /\ ByUrlSlugs = {}
    /\ Cardinality(DOMAIN rdSums) = 2
    /\ rdError = "This page hasn't been summarized yet"
    /\ Len(OpenCalls) = 0

-----------------------------------------------------------------------------
(* Claims about summarize (SpecRace) *)

\* C17: summarize has one outcome, that of whichever of sdkCall() and the
\* timer settled first: the timeout error when the timer did, whatever
\* sdkCall() does afterwards, and the result or error of sdkCall() when it
\* did, whatever the timer does afterwards.  The timer fires no earlier than
\* TIMEOUT_MS, and sdkCall() goes on reading the query after a timeout.
C17_FirstSettledDecides ==
    /\ (smOutcome = <<>>) = (smOrder = <<>>)
    /\ Len(smOutcome) <= 1
    /\ (smOrder # <<>> /\ smOrder[1] = "timer") =>
          /\ smOutcome = <<TimeoutError>>
          /\ smNow >= TIMEOUT_MS
    /\ (smOrder # <<>> /\ smOrder[1] = "oracle") =>
          /\ smOutcome = smOracle
          /\ smClears => smTimer = "cleared"
    /\ (smOutcome # <<>> /\ smOracle = <<>>) => ENABLED OracleResult

\* the timer fired first and sdkCall() returned a summary afterwards: the
\* outcome is still the timeout
C17_Witness ==
    /\ smOrder = <<"timer", "oracle">>
    /\ smOracle # <<>> /\ smOracle[1].ok
    /\ smOutcome = <<TimeoutError>>

\* sdkCall() failed first and the timer of the older summarize fired
\* afterwards: the outcome is still the error of sdkCall()
C17_WitnessLateTimer ==
    /\ smOrder = <<"oracle", "timer">>
    /\ ~smOracle[1].ok
    /\ smOutcome = smOracle

-----------------------------------------------------------------------------
(* Claims about the map-reduce branch (SpecReduce) *)

MergeCalls == {k \in 1..Len(mrCalls) : mrCalls[k].type = "site-merge"}

\* the summary that the call of chunk i returned
ReturnedBy(i) == mrSettled[CHOOSE k \in 1..Len(mrSettled) : mrSettled[k][1] = i][2]

PartOf(i, n) ==
    <<"--- Part ", ToString(i), " of ", ToString(n), " ---", "\n">> \o ReturnedBy(i)

\* C21: whatever the order in which the chunk calls return, the merge call
\* is issued after all of them returned, the i-th chunk call carries the
\* i-th chunk, and part i of the merge input, under "Part i of N", is the
\* summary that the call of the i-th chunk returned
C21_MergeAfterAllInChunkOrder ==
    \A k \in MergeCalls :
        LET n == Len(mrChunks)
        IN  /\ k = n + 1
            /\ Returned(mrSettled) = 1..n
            /\ \A i \in 1..n : mrCalls[i] = ReduceCall(SiteContent(mrChunks[i]), "site")
            /\ mrCalls[k].content =
                   JoinSeq([i \in 1..n |-> PartOf(i, n)], <<"\n", "\n">>)

\* three chunks, the last returned first, with summaries that differ
C21_Witness ==
    /\ MergeCalls # {}
    /\ Len(mrChunks) = 3
    /\ mrSettled[1][1] = 3 /\ mrSettled[3][1] = 1
    /\ mrSettled[1][2] # mrSettled[3][2]

\* the returned pages that are the root page
ReturnedRoots(site) ==
    {k \in 1..Len(site.pages) :
        site.pages[k].url = site.rootUrl \/ site.pages[k].url = site.rootUrl \o <<"/">>}

\* C25: the title of a site result is the extracted title of the root page
\* when the root page is among the returned pages, those with more than 20
\* words left, and the hostname when it is not
C25_TitleOfSurvivingRoot ==
    SiteReturned =>
        LET site == fsResult[1].site
        IN  site.title = IF ReturnedRoots(site) # {}
                         THEN site.pages[SetMin(ReturnedRoots(site))].title
                         ELSE ParseUrl(site.rootUrl).host

\* the windows of the pages handed to stripCommonText
WindowsOf(i) == {PageWindows(scPages[i])[j] : j \in 1..Len(PageWindows(scPages[i]))}
AllWindows == UNION {WindowsOf(i) : i \in 1..Len(scPages)}

\* the pages that hold a window at least once
Containing(w) == {i \in 1..Len(scPages) : w \in WindowsOf(i)}

\* floor(0.8 * n)
FloorOfEightTenths(n) == CHOOSE k \in 0..n : 10 * k <= 8 * n /\ 10 * (k + 1) > 8 * n

\* the windows that count as boilerplate by the number of pages holding them
Boilerplate ==
    {w \in AllWindows :
        Cardinality(Containing(w)) >= FloorOfEightTenths(Len(scPages))}

\* C26: with three pages or more, the count of a window is the number of
\* pages that hold it, never more than the number of pages however often a
\* page repeats it, and the windows removed as boilerplate are exactly those
\* whose count reaches floor(0.8 * N)
C26_BoilerplateByPageCount ==
    Len(scPages) >= 3 =>
        /\ \A w \in AllWindows :
              /\ ChunkCount(scPages, w) = Cardinality(Containing(w))
              /\ ChunkCount(scPages, w) <= Len(scPages)
        /\ {CommonChunks(scPages)[k] : k \in 1..Len(CommonChunks(scPages))} = Boilerplate
        /\ (scResult # <<>> /\ Boilerplate = {} => scResult[1] = scPages)

\* three pages: one holds twice a window that all of them hold, another
\* window is held by exactly two pages and removed, and a third by one page
\* only and kept
C26_Witness ==
    /\ Len(scPages) = 3 /\ scResult # <<>>
    /\ \E i \in 1..3 : \E j, k \in 1..Len(PageWindows(scPages[i])) :
          /\ j # k /\ PageWindows(scPages[i])[j] = PageWindows(scPages[i])[k]
          /\ Cardinality(Containing(PageWindows(scPages[i])[j])) = 3
    /\ \E w \in Boilerplate : Cardinality(Containing(w)) = 2
    /\ \E w \in AllWindows \ Boilerplate : Cardinality(Containing(w)) = 1
    /\ scResult[1] # scPages

-----------------------------------------------------------------------------
(* Claims about findTabByUrl (SpecTab) *)

\* the tabs listed when findTabByUrl was called: openUrl appends its tab
ListedTabs == IF ftOpened # <<>> /\ ftOpened[1].openUrl # <<>>
              THEN SubSeq(ftTabs, 1, Len(ftTabs) - 1) ELSE ftTabs

\* the orchestrator reads the first tab of hits, or opens a tab at the
\* requested URL and reads that one when hits is empty
TabChosenFrom(hits) ==
    /\ ftFound # <<>> =>
          ftFound[1] = IF hits = {} THEN <<>> ELSE <<ListedTabs[SetMin(hits)]>>
    /\ ftOpened # <<>> =>
          ftOpened[1] = IF hits = {}
                        THEN [openUrl |-> <<ftUrl>>, extractText |-> Len(ListedTabs) + 1]
                        ELSE [openUrl |-> <<>>, extractText |-> ListedTabs[SetMin(hits)].id]

\* C27 as it is stated: the tab returned is the first one whose URL equals
\* the requested URL or is a prefix of it, and a new tab is opened when there
\* is none
C27_AsStated ==
    TabChosenFrom({i \in 1..Len(ListedTabs) :
                      \/ ListedTabs[i].url = ftUrl
                      \/ /\ Len(ListedTabs[i].url) <= Len(ftUrl)
                         /\ SubSeq(ftUrl, 1, Len(ListedTabs[i].url)) = ListedTabs[i].url})

\* C27: the tab returned is the first one in list order whose URL equals the
\* requested URL or starts with it (the requested URL is a prefix of the
\* tab's URL); when there is none, no tab is returned and a new tab is
\* opened at the requested URL
C27_FirstTabAtOrBelowUrl ==
    TabChosenFrom({i \in 1..Len(ListedTabs) :
                      \/ ListedTabs[i].url = ftUrl
                      \/ /\ Len(ftUrl) <= Len(ListedTabs[i].url)
                         /\ SubSeq(ListedTabs[i].url, 1, Len(ftUrl)) = ftUrl})

\* two tabs start with the requested URL and the first was read: it has a
\* fragment the request has not, the second is at the requested URL
C27_Witness ==
    /\ ftOpened # <<>> /\ ftOpened[1].openUrl = <<>> /\ ftOpened[1].extractText = 1
    /\ Len(ftTabs) = 2
    /\ ftTabs[1].url = ftUrl \o <<"#", "top">> /\ ftTabs[2].url = ftUrl

\* a tab at the home page and a request for a page below it: a tab is opened
C27_WitnessOpened ==
    /\ ftOpened # <<>> /\ ftOpened[1].openUrl = <<PageUrl>>
    /\ ftTabs[1].url = <<"https://", "ex.com", "/">>

\* discovery returned and fetchSite went on to fetch the pages
PastDiscovery == fsPc \in {"fetch", "strip", "filter", "done"}

FetchFailedOn == fsResult # <<>> /\ "fetched" \in DOMAIN fsResult[1]

\* C30: discovery never yields an empty list.  The list in use is a sitemap
\* list with at least one location, or a crawl list that holds the root
\* URL; fetchSite never fails with "No pages found on site"; and the fetch
\* that follows discovery is issued for at least one page.
C30_DiscoveryNeverEmpty ==
    /\ PastDiscovery =>
          /\ Len(fsUrls) >= 1
          /\ \/ fsUrls \in LocLists
             \/ \E i \in 1..Len(fsUrls) : fsUrls[i] = getRootUrl(fsEnv.url)
    /\ fsPc \in {"strip", "filter", "done"} => Len(fsPages) = Len(fsUrls)
    /\ FetchFailedOn => Len(fsResult[1].fetched) >= 1
    /\ (fsResult # <<>> /\ ~fsResult[1].ok) =>
          fsResult[1].error # "No pages found on site"

\* the crawl of a root page without any link: the root alone was fetched
C30_Witness ==
    /\ fsPc = "done" /\ fsUrls = <<getRootUrl(fsEnv.url)>>
    /\ Len(fsPages) = 1

-----------------------------------------------------------------------------
(* Claims about runSummarize and runSummarizeSite (Spec) *)

\* the stored articles with the canonical key of url and a summary file
StoredWithSummary(url) == findByUrl(url, articles) \cap DOMAIN summaries

\* the invocation has its target URL and has written nothing yet, so the
\* storage is still the one it found
Unwritten == pc # "idle" /\ run.targetUrl # <<>> /\ calls.writes = <<>>

\* the invocation has its summary from the oracle
HasSummary == pc \in {"saveArticle", "saveSummary", "saveHTML", "done"}

\* C1: a runSummarize invocation with redo unset whose target URL has the
\* canonical key of a stored article with a readable summary file returns
\* that stored summary text with cached = true, and calls neither
\* extractText nor openUrl nor fetchCaptions nor summarize nor writes a file.
C1_CachedRunReturnsStoredSummary ==
    (/\ run.fn = "runSummarize" /\ ~run.opts.redo /\ Unwritten
     /\ StoredWithSummary(run.targetUrl) # {})
    => /\ pc = "done"
       /\ result # <<>>
       /\ result[1].cached
       /\ result[1].summary
            \in {savedSummary[s] : s \in StoredWithSummary(run.targetUrl)}
       /\ calls.extractText = 0 /\ calls.openUrl = 0 /\ calls.fetchCaptions = 0
       /\ calls.summarize = <<>>

\* C2: a forced invocation (redo set) of runSummarize or runSummarizeSite
\* never looks the cache up and never returns a result marked cached; when
\* it returns, it has extracted (extractText, fetchCaptions or fetchSite)
\* and called the oracle, whatever is stored.
C2_ForcedRunSkipsCache ==
    (pc # "idle" /\ run.opts.redo)
    => /\ calls.findByUrl = 0
       /\ (result # <<>> => ~result[1].cached)
       /\ (run.targetUrl # <<>> /\ pc # "failed"
           => pc \in {"extract", "fetchSite"}
              \/ calls.extractText + calls.fetchCaptions + calls.fetchSite >= 1)
       /\ (HasSummary => Len(calls.summarize) >= 1)

\* a forced runSummarize with a stored article of its key and a readable
\* summary has extracted and called the oracle, and has not written yet
C2_Witness ==
    /\ run.fn = "runSummarize" /\ run.opts.redo /\ Unwritten
    /\ pc = "saveArticle"
    /\ StoredWithSummary(run.targetUrl) # {}
    /\ calls.extractText = 1 /\ Len(calls.summarize) = 1

OfType(cs, type) == SelectSeq(cs, LAMBDA c : c.type = type)

\* the labels "--- Part i of N ---" of a merge input
PartLabels(content) == {i \in 1..Len(content) : content[i] = "--- Part "}

\* the site of a runSummarizeSite invocation is fetched
SiteFetched == run.fn = "runSummarizeSite" /\ run.site # <<>>

\* C7: runSummarizeSite chooses the path by the total words alone.  Up to
\* 60,000 words it makes one call of kind site over all the pages and no
\* merge call; above, it makes no single-pass call, one call of kind site
\* for each chunk, and then one site-merge call whose input has as many
\* labelled parts as there are chunks.
C7_PathByTotalWords ==
    SiteFetched =>
        LET site == run.site[1]
            all == calls.summarize
            siteCalls == OfType(all, "site")
            mergeCalls == OfType(all, "site-merge")
            n == Len(run.chunks)
        IN  /\ Len(all) = Len(siteCalls) + Len(mergeCalls)
            /\ IF site.totalWords <= 60000
               THEN /\ pc \notin {"chunks", "awaitChunks", "merge"}
                    /\ run.chunks = <<>>
                    /\ mergeCalls = <<>>
                    /\ Len(siteCalls) <= 1
                    /\ \A i \in 1..Len(siteCalls) :
                          siteCalls[i].content = SiteContent(site.pages)
                    /\ (HasSummary => Len(siteCalls) = 1)
               ELSE IF pc = "chunks" THEN all = <<>>
               ELSE /\ pc # "summarize"
                    /\ n >= 1 /\ Flatten(run.chunks) = site.pages
                    /\ Len(siteCalls) = n
                    /\ \A i \in 1..n :
                          siteCalls[i].content = SiteContent(run.chunks[i])
                    /\ Len(mergeCalls) <= 1
                    /\ (mergeCalls # <<>> =>
                          /\ all = siteCalls \o mergeCalls
                          /\ \A i \in 1..n : run.chunkSummaries[i] # <<>>
                          /\ Cardinality(PartLabels(mergeCalls[1].content)) = n)
                    /\ (HasSummary => Len(mergeCalls) = 1)

\* a site above the budget went through two chunk calls and the merge
C7_Witness ==
    /\ SiteFetched /\ pc = "done"
    /\ run.site[1].totalWords > 60000
    /\ Len(run.chunks) = 2
    /\ Len(OfType(calls.summarize, "site")) = 2
    /\ Len(OfType(calls.summarize, "site-merge")) = 1

\* the canonical key findByUrl reads from a stored article
StoredKey(slug) == normalizeUrl(UrlLine(articles[slug]))

\* C14: in the invocations without redo that complete, starting from empty
\* storage, no two stored articles have the same canonical key.
C14_OneArticlePerKey ==
    \A s1, s2 \in DOMAIN articles :
        (UrlLine(articles[s1]) # <<>> /\ UrlLine(articles[s2]) # <<>>
         /\ StoredKey(s1) = StoredKey(s2)) => s1 = s2

\* a second invocation, for another spelling of the URL of the stored
\* article and with another title, was answered from the cache and wrote
\* nothing
C14_Witness ==
    /\ runs = 2 /\ pc = "done" /\ result # <<>>
    /\ ~run.opts.redo
    /\ calls.findByUrl = 1 /\ calls.writes = <<>>
    /\ Cardinality(DOMAIN articles) = 1
    /\ \E slug \in DOMAIN articles :
          /\ UrlLine(articles[slug]) # run.url
          /\ StoredKey(slug) = normalizeUrl(run.url)
          /\ TitleLine(articles[slug]) # run.opts.title

\* the URL an invocation starts from: the one it was given, else the one of
\* the active tab
StartUrl ==
    IF run.opts.url # <<>> THEN run.opts.url
    ELSE IF tabs # <<>> /\ tabs[1] # <<>> THEN tabs[1][1].url
    ELSE <<>>

\* C15: an invocation that starts from the URL of the rendered HTML of a
\* stored article, given explicitly or taken from the active tab, works on
\* the source URL recorded in that article: its cache lookup and its
\* extraction never see the HTML's own URL.
C15_OwnHtmlResolved ==
    (pc # "idle" /\ calls.writes = <<>> /\ StartUrl # <<>>
     /\ resolveSourceUrl(StartUrl, articles) # <<>>) =>
        run.targetUrl = resolveSourceUrl(StartUrl, articles)

CallsOfType(type) == SelectSeq(calls.summarize, LAMBDA c : c.type = type)

OracleFailed == run.error = "SDK error"

\* a chunk call failed: the error came while a chunk summary was missing
ChunkFailed == OracleFailed /\ \E j \in 1..Len(run.chunkSummaries) : run.chunkSummaries[j] = <<>>

\* C18: when an oracle call of a run fails, the run fails with that error
\* and has written no article, summary or HTML; no call is issued a second
\* time (one call for a web, video or single-pass site run, one per chunk and
\* at most one merge otherwise), and after a failed chunk call no merge call
\* is issued.
C18_OracleFailureIsFinal ==
    /\ OracleFailed => (pc = "failed" /\ result = <<>> /\ calls.writes = <<>>)
    /\ IF run.chunks = <<>>
       THEN Len(calls.summarize) <= 1
       ELSE /\ Len(CallsOfType("site")) = Len(run.chunks)
            /\ Len(CallsOfType("site-merge")) <= 1
            /\ Len(calls.summarize) = Len(CallsOfType("site")) + Len(CallsOfType("site-merge"))
    /\ ChunkFailed => CallsOfType("site-merge") = <<>>

\* the second of two chunk calls failed after the first returned: the run
\* failed, no merge call, nothing written
C18_Witness ==
    /\ pc = "failed" /\ OracleFailed
    /\ Len(run.chunks) = 2
    /\ run.chunkSummaries[1] # <<>> /\ run.chunkSummaries[2] = <<>>
    /\ Len(calls.summarize) = 2
    /\ calls.writes = <<>>

PageFetchFailed == \E i \in 1..Len(run.fetched) : ~run.fetched[i]

\* C19: when the fetch of one of the discovered pages fails, fetchSite
\* fails and returns no pages, and runSummarizeSite fails without a call of
\* the oracle and without a write.
C19_OnePageFailsAll ==
    PageFetchFailed =>
        /\ pc = "failed" /\ result = <<>>
        /\ run.site = <<>> /\ run.pages = 0 /\ run.content = <<>>
        /\ calls.summarize = <<>>
        /\ calls.writes = <<>>

\* of two discovered pages the first was fetched and the second was not
C19_Witness ==
    /\ run.fn = "runSummarizeSite"
    /\ run.fetched = <<TRUE, FALSE>>
    /\ pc = "failed"
    /\ calls.fetchSite = 1

\* C20: a run without redo that is not answered from the cache writes only
\* under a slug that had no stored article and no stored summary, so every
\* artifact persisted before it stays as it was.
C20_NonForcedWritesFreshSlug ==
    (pc = "saveArticle" /\ ~run.opts.redo) =>
        /\ run.slug \notin DOMAIN articles
        /\ run.slug \notin DOMAIN summaries

WriteOrder == <<"articles", "summaries", "html">>

\* what the directory of a kind holds
Stored(kind) ==
    IF kind = "articles" THEN DOMAIN articles
    ELSE IF kind = "summaries" THEN DOMAIN summaries ELSE DOMAIN htmls

\* C22: the writes of a run are, in this order, the article, the summary and
\* the HTML file, each under the slug of the run, and each one is on disk
\* once made; so whenever the run has written a summary its article is
\* stored, and whenever it has written the HTML file both are, a failure
\* between two writes included
C22_ArticleThenSummaryThenHtml ==
    pc # "off" =>
        /\ Len(calls.writes) <= 3
        /\ \A k \in 1..Len(calls.writes) :
              /\ calls.writes[k] = <<WriteOrder[k], run.slug>>
              /\ \A j \in 1..k : run.slug \in Stored(WriteOrder[j])

\* a site run that failed between its summary and its HTML file
C22_Witness ==
    /\ pc = "failed" /\ run.error = "write failed"
    /\ run.fn = "runSummarizeSite"
    /\ Len(calls.writes) = 2
    /\ run.slug \in DOMAIN articles /\ run.slug \in DOMAIN summaries
    /\ run.slug \notin DOMAIN htmls

\* the URL that the invocation hands to getCachedResult
LookupUrl == IF run.fn = "runSummarizeSite" THEN run.url ELSE run.targetUrl

\* C23: a run without redo finds stored articles of its key and none of
\* them has a summary file.  The lookup was made and gave no result and no
\* error: the run is not answered from the cache, it goes on to extraction
\* and, once it has its summary, it has called the oracle.
C23_MissingSummaryIsAMiss ==
    (/\ pc # "off" /\ ~run.opts.redo /\ Unwritten
     /\ findByUrl(LookupUrl, articles) # {}
     /\ StoredWithSummary(LookupUrl) = {})
    => /\ calls.findByUrl = 1
       /\ pc # "done" /\ result = <<>>
       /\ (pc # "failed"
           => pc \in {"extract", "fetchSite"}
              \/ calls.extractText + calls.fetchCaptions + calls.fetchSite >= 1)
       /\ (HasSummary => Len(calls.summarize) >= 1)

\* a run without redo returned a fresh result after its three writes while
\* an article of its key, written by the run before it, has no summary file
C23_Witness ==
    /\ pc = "done" /\ ~run.opts.redo
    /\ result # <<>> /\ ~result[1].cached
    /\ Len(calls.writes) = 3 /\ Len(calls.summarize) >= 1
    /\ \E slug \in findByUrl(LookupUrl, articles) :
          slug # run.slug /\ slug \notin DOMAIN summaries

\* text.match(/^type:\s*(.+)$/m)?.[1]: the kind recorded in a stored file
KindLine(text) ==
    LET hits == {i \in LineStarts(text, "type:") : RestOfLine(text, i + 1) # <<>>}
    IN  IF hits = {} THEN <<>> ELSE Trim(RestOfLine(text, SetMin(hits) + 1))

\* C24: the cache check of a site run matches artifacts of kind site only:
\* a site run that is answered from the cache is answered with an artifact
\* recorded with kind site, so a web artifact with the key of the site root
\* leaves the run to its crawl
C24_SiteCacheIsOfKindSite ==
    (/\ pc = "done" /\ run.fn = "runSummarizeSite"
     /\ result # <<>> /\ result[1].cached)
    => KindLine(articles[result[1].slug]) = <<"site">>

\* the key of a video: "yt:" and the video id
IsVideoKey(key) == key # <<>> /\ key[1] = "yt:"

\* C29: a runSummarize invocation whose URL has a video key takes the
\* caption path with the video id of that key: it is typed youtube, it
\* never reads or opens a browser tab, and once past extraction without a
\* cached result it has called fetchCaptions
C29_VideoKeyTakesCaptionPath ==
    (/\ pc \notin {"off", "idle"} /\ run.fn = "runSummarize" /\ run.targetUrl # <<>>
     /\ IsVideoKey(normalizeUrl(run.targetUrl)))
    => /\ isYouTube(run.url)
       /\ extractVideoId(run.url) = normalizeUrl(run.targetUrl)[2]
       /\ calls.extractText = 0 /\ calls.openUrl = 0
       /\ run.type \in {"", "youtube"}
       /\ (HasSummary /\ (result # <<>> => ~result[1].cached)
           => calls.fetchCaptions = 1)

=============================================================================
